---- MODULE Spec2Model ----
(***************************************************************************)
(* Model of the instruction-executor MCP server                            *)
(* (servers/execution-mcp/instruction_executor.py): the InstructionExecutor *)
(* object and the line-delimited protocol loop mcp_server().                *)
(*                                                                         *)
(* Python strings are sequences of one-character strings, so that `in`,     *)
(* .lower(), .upper(), + and "\n".join are computed as Python computes them. *)
(* JSON values are tagged records: [t |-> "null"], [t |-> "num", n |-> 5],   *)
(* [t |-> "str", s |-> chars], [t |-> "list", items |-> seq],               *)
(* [t |-> "dict", d |-> record], [t |-> "bool", b |-> TRUE].                *)
(***************************************************************************)
EXTENDS Integers, Sequences, FiniteSets, TLC

(***************************************************************************)
(* String literals of the source, character by character.                  *)
(***************************************************************************)

\* 'initialize'
s_initialize ==
    <<"i", "n", "i", "t", "i", "a", "l", "i", "z", "e">>

\* 'tools/list'
s_tools_list ==
    <<"t", "o", "o", "l", "s", "/", "l", "i", "s", "t">>

\* 'tools/call'
s_tools_call ==
    <<"t", "o", "o", "l", "s", "/", "c", "a", "l", "l">>

\* 'notifications/message'
s_notifications_message ==
    <<"n", "o", "t", "i", "f", "i", "c", "a", "t", "i", "o", "n", "s", "/",
      "m", "e", "s", "s", "a", "g", "e">>

\* 'sampling/createMessage'
s_sampling_createMessage ==
    <<"s", "a", "m", "p", "l", "i", "n", "g", "/", "c", "r", "e", "a", "t",
      "e", "M", "e", "s", "s", "a", "g", "e">>

\* 'ping'
s_ping ==
    <<"p", "i", "n", "g">>

\* 'unknown'
s_unknown ==
    <<"u", "n", "k", "n", "o", "w", "n">>

\* 'get_current_state'
s_get_current_state ==
    <<"g", "e", "t", "_", "c", "u", "r", "r", "e", "n", "t", "_", "s", "t",
      "a", "t", "e">>

\* 'reset_execution'
s_reset_execution ==
    <<"r", "e", "s", "e", "t", "_", "e", "x", "e", "c", "u", "t", "i", "o",
      "n">>

\* 'get_history'
s_get_history ==
    <<"g", "e", "t", "_", "h", "i", "s", "t", "o", "r", "y">>

\* 'run_full_execution'
s_run_full_execution ==
    <<"r", "u", "n", "_", "f", "u", "l", "l", "_", "e", "x", "e", "c", "u",
      "t", "i", "o", "n">>

\* 'clear_cache'
s_clear_cache ==
    <<"c", "l", "e", "a", "r", "_", "c", "a", "c", "h", "e">>

\* 'nonexistent_tool'
s_nonexistent_tool ==
    <<"n", "o", "n", "e", "x", "i", "s", "t", "e", "n", "t", "_", "t", "o",
      "o", "l">>

\* 'jsonrpc'
s_jsonrpc ==
    <<"j", "s", "o", "n", "r", "p", "c">>

\* 'id'
s_id ==
    <<"i", "d">>

\* 'method'
s_method ==
    <<"m", "e", "t", "h", "o", "d">>

\* 'params'
s_params ==
    <<"p", "a", "r", "a", "m", "s">>

\* 'name'
s_name ==
    <<"n", "a", "m", "e">>

\* 'arguments'
s_arguments ==
    <<"a", "r", "g", "u", "m", "e", "n", "t", "s">>

\* 'content'
s_content ==
    <<"c", "o", "n", "t", "e", "n", "t">>

\* 'text'
s_text ==
    <<"t", "e", "x", "t">>

\* 'messages'
s_messages ==
    <<"m", "e", "s", "s", "a", "g", "e", "s">>

\* 'step'
s_step ==
    <<"s", "t", "e", "p">>

\* 'description'
s_description ==
    <<"d", "e", "s", "c", "r", "i", "p", "t", "i", "o", "n">>

\* 'goal'
s_goal ==
    <<"g", "o", "a", "l">>

\* 'steps'
s_steps ==
    <<"s", "t", "e", "p", "s">>

\* 'USER: '
s_USER ==
    <<"U", "S", "E", "R", ":", " ">>

\* 'AI: '
s_AI ==
    <<"A", "I", ":", " ">>

\* 'DONE'
s_DONE ==
    <<"D", "O", "N", "E">>

\* 'Monitoring started'
s_Monitoring_started ==
    <<"M", "o", "n", "i", "t", "o", "r", "i", "n", "g", " ", "s", "t", "a",
      "r", "t", "e", "d">>

\* 'Watching for user prompts during execution'
s_Watching ==
    <<"W", "a", "t", "c", "h", "i", "n", "g", " ", "f", "o", "r", " ", "u",
      "s", "e", "r", " ", "p", "r", "o", "m", "p", "t", "s", " ", "d", "u",
      "r", "i", "n", "g", " ", "e", "x", "e", "c", "u", "t", "i", "o", "n">>

\* 'Full execution started'
s_Full_execution_started ==
    <<"F", "u", "l", "l", " ", "e", "x", "e", "c", "u", "t", "i", "o", "n",
      " ", "s", "t", "a", "r", "t", "e", "d">>

\* a faulty text for the record of a started run, one that holds 'done';
\* C28 fails with it
s_Executing_done ==
    <<"D", "o", "n", "e", " ", "e", "x", "e", "c", "u", "t", "i", "n", "g",
      " ">>

\* 'Executing '
s_Executing ==
    <<"E", "x", "e", "c", "u", "t", "i", "n", "g", " ">>

\* ' steps'
s_steps_suffix ==
    <<" ", "s", "t", "e", "p", "s">>

\* 'No execution history yet.'
s_No_history ==
    <<"N", "o", " ", "e", "x", "e", "c", "u", "t", "i", "o", "n", " ", "h",
      "i", "s", "t", "o", "r", "y", " ", "y", "e", "t", ".">>

\* 'Execution reset. Ready to start again.'
s_Execution_reset ==
    <<"E", "x", "e", "c", "u", "t", "i", "o", "n", " ", "r", "e", "s", "e",
      "t", ".", " ", "R", "e", "a", "d", "y", " ", "t", "o", " ", "s", "t",
      "a", "r", "t", " ", "a", "g", "a", "i", "n", ".">>

\* 'Cache cleared, log file emptied, and instructions reloaded successfully. Ready for fresh execution monitoring.'
s_Cache_cleared ==
    <<"C", "a", "c", "h", "e", " ", "c", "l", "e", "a", "r", "e", "d", ",",
      " ", "l", "o", "g", " ", "f", "i", "l", "e", " ", "e", "m", "p", "t",
      "i", "e", "d", ",", " ", "a", "n", "d", " ", "i", "n", "s", "t", "r",
      "u", "c", "t", "i", "o", "n", "s", " ", "r", "e", "l", "o", "a", "d",
      "e", "d", " ", "s", "u", "c", "c", "e", "s", "s", "f", "u", "l", "l",
      "y", ".", " ", "R", "e", "a", "d", "y", " ", "f", "o", "r", " ", "f",
      "r", "e", "s", "h", " ", "e", "x", "e", "c", "u", "t", "i", "o", "n",
      " ", "m", "o", "n", "i", "t", "o", "r", "i", "n", "g", ".">>

\* 'Unknown tool: '
s_Unknown_tool ==
    <<"U", "n", "k", "n", "o", "w", "n", " ", "t", "o", "o", "l", ":", " ">>

\* 'None'
s_None ==
    <<"N", "o", "n", "e">>

\* 'Internal error: '
s_Internal_error ==
    <<"I", "n", "t", "e", "r", "n", "a", "l", " ", "e", "r", "r", "o", "r",
      ":", " ">>

\* 'No steps found in instructions file. Please ensure instructions.json exists with proper step definitions.'
s_No_steps ==
    <<"N", "o", " ", "s", "t", "e", "p", "s", " ", "f", "o", "u", "n", "d",
      " ", "i", "n", " ", "i", "n", "s", "t", "r", "u", "c", "t", "i", "o",
      "n", "s", " ", "f", "i", "l", "e", ".", " ", "P", "l", "e", "a", "s",
      "e", " ", "e", "n", "s", "u", "r", "e", " ", "i", "n", "s", "t", "r",
      "u", "c", "t", "i", "o", "n", "s", ".", "j", "s", "o", "n", " ", "e",
      "x", "i", "s", "t", "s", " ", "w", "i", "t", "h", " ", "p", "r", "o",
      "p", "e", "r", " ", "s", "t", "e", "p", " ", "d", "e", "f", "i", "n",
      "i", "t", "i", "o", "n", "s", ".">>

\* '\n'
s_newline ==
    <<"\n">>

\* 'Complete the instructions'
s_Complete_the_instructions ==
    <<"C", "o", "m", "p", "l", "e", "t", "e", " ", "t", "h", "e", " ", "i",
      "n", "s", "t", "r", "u", "c", "t", "i", "o", "n", "s">>

\* 'Instruction Execution'
s_Instruction_Execution ==
    <<"I", "n", "s", "t", "r", "u", "c", "t", "i", "o", "n", " ", "E", "x",
      "e", "c", "u", "t", "i", "o", "n">>

\* '# '
s_plan_hash ==
    <<"#", " ">>

\* '\n\n## Goal: '
s_plan_goal ==
    <<"\n", "\n", "#", "#", " ", "G", "o", "a", "l", ":", " ">>

\* '\n\n## Full Execution Plan - Execute All Steps:\n\n'
s_plan_header ==
    <<"\n", "\n", "#", "#", " ", "F", "u", "l", "l", " ", "E", "x", "e", "c",
      "u", "t", "i", "o", "n", " ", "P", "l", "a", "n", " ", "-", " ", "E",
      "x", "e", "c", "u", "t", "e", " ", "A", "l", "l", " ", "S", "t", "e",
      "p", "s", ":", "\n", "\n">>

\* '**STEP '
s_plan_STEP ==
    <<"*", "*", "S", "T", "E", "P", " ">>

\* ':** '
s_plan_colon ==
    <<":", "*", "*", " ">>

\* '\n\n'
s_plan_stepsep ==
    <<"\n", "\n">>

\* '\n**YOUR TASK:** Execute all '
s_plan_task ==
    <<"\n", "*", "*", "Y", "O", "U", "R", " ", "T", "A", "S", "K", ":", "*",
      "*", " ", "E", "x", "e", "c", "u", "t", "e", " ", "a", "l", "l", " ">>

\* ' steps above in sequence using your available tools.\n\n**AVAILABLE TOOLS:**\n- File operations (read_file, write, search_replace, etc.)\n- Terminal commands (run_terminal_cmd)\n- Web browser control (for opening files)\n- Any other tools you have access to\n\n**EXECUTION APPROACH:**\n1. Read through all steps to understand the complete workflow\n2. Execute each step in order\n3. Verify completion of each step before moving to the next\n4. Report progress as you complete each step\n\n**IMPORTANT:** Execute the actual steps using real tools - do not simulate or skip any steps.\n\nBegin execution now with Step 1.'
s_plan_trailer ==
    <<" ", "s", "t", "e", "p", "s", " ", "a", "b", "o", "v", "e", " ", "i",
      "n", " ", "s", "e", "q", "u", "e", "n", "c", "e", " ", "u", "s", "i",
      "n", "g", " ", "y", "o", "u", "r", " ", "a", "v", "a", "i", "l", "a",
      "b", "l", "e", " ", "t", "o", "o", "l", "s", ".", "\n", "\n", "*", "*",
      "A", "V", "A", "I", "L", "A", "B", "L", "E", " ", "T", "O", "O", "L",
      "S", ":", "*", "*", "\n", "-", " ", "F", "i", "l", "e", " ", "o", "p",
      "e", "r", "a", "t", "i", "o", "n", "s", " ", "(", "r", "e", "a", "d",
      "_", "f", "i", "l", "e", ",", " ", "w", "r", "i", "t", "e", ",", " ",
      "s", "e", "a", "r", "c", "h", "_", "r", "e", "p", "l", "a", "c", "e",
      ",", " ", "e", "t", "c", ".", ")", "\n", "-", " ", "T", "e", "r", "m",
      "i", "n", "a", "l", " ", "c", "o", "m", "m", "a", "n", "d", "s", " ",
      "(", "r", "u", "n", "_", "t", "e", "r", "m", "i", "n", "a", "l", "_",
      "c", "m", "d", ")", "\n", "-", " ", "W", "e", "b", " ", "b", "r", "o",
      "w", "s", "e", "r", " ", "c", "o", "n", "t", "r", "o", "l", " ", "(",
      "f", "o", "r", " ", "o", "p", "e", "n", "i", "n", "g", " ", "f", "i",
      "l", "e", "s", ")", "\n", "-", " ", "A", "n", "y", " ", "o", "t", "h",
      "e", "r", " ", "t", "o", "o", "l", "s", " ", "y", "o", "u", " ", "h",
      "a", "v", "e", " ", "a", "c", "c", "e", "s", "s", " ", "t", "o", "\n",
      "\n", "*", "*", "E", "X", "E", "C", "U", "T", "I", "O", "N", " ", "A",
      "P", "P", "R", "O", "A", "C", "H", ":", "*", "*", "\n", "1", ".", " ",
      "R", "e", "a", "d", " ", "t", "h", "r", "o", "u", "g", "h", " ", "a",
      "l", "l", " ", "s", "t", "e", "p", "s", " ", "t", "o", " ", "u", "n",
      "d", "e", "r", "s", "t", "a", "n", "d", " ", "t", "h", "e", " ", "c",
      "o", "m", "p", "l", "e", "t", "e", " ", "w", "o", "r", "k", "f", "l",
      "o", "w", "\n", "2", ".", " ", "E", "x", "e", "c", "u", "t", "e", " ",
      "e", "a", "c", "h", " ", "s", "t", "e", "p", " ", "i", "n", " ", "o",
      "r", "d", "e", "r", "\n", "3", ".", " ", "V", "e", "r", "i", "f", "y",
      " ", "c", "o", "m", "p", "l", "e", "t", "i", "o", "n", " ", "o", "f",
      " ", "e", "a", "c", "h", " ", "s", "t", "e", "p", " ", "b", "e", "f",
      "o", "r", "e", " ", "m", "o", "v", "i", "n", "g", " ", "t", "o", " ",
      "t", "h", "e", " ", "n", "e", "x", "t", "\n", "4", ".", " ", "R", "e",
      "p", "o", "r", "t", " ", "p", "r", "o", "g", "r", "e", "s", "s", " ",
      "a", "s", " ", "y", "o", "u", " ", "c", "o", "m", "p", "l", "e", "t",
      "e", " ", "e", "a", "c", "h", " ", "s", "t", "e", "p", "\n", "\n", "*",
      "*", "I", "M", "P", "O", "R", "T", "A", "N", "T", ":", "*", "*", " ",
      "E", "x", "e", "c", "u", "t", "e", " ", "t", "h", "e", " ", "a", "c",
      "t", "u", "a", "l", " ", "s", "t", "e", "p", "s", " ", "u", "s", "i",
      "n", "g", " ", "r", "e", "a", "l", " ", "t", "o", "o", "l", "s", " ",
      "-", " ", "d", "o", " ", "n", "o", "t", " ", "s", "i", "m", "u", "l",
      "a", "t", "e", " ", "o", "r", " ", "s", "k", "i", "p", " ", "a", "n",
      "y", " ", "s", "t", "e", "p", "s", ".", "\n", "\n", "B", "e", "g", "i",
      "n", " ", "e", "x", "e", "c", "u", "t", "i", "o", "n", " ", "n", "o",
      "w", " ", "w", "i", "t", "h", " ", "S", "t", "e", "p", " ", "1", ".">>

\* 'ok'
s_ok ==
    <<"o", "k">>

\* 'go'
s_go ==
    <<"g", "o">>

\* 'all done'
s_done_lower ==
    <<"a", "l", "l", " ", "d", "o", "n", "e">>

\* 'Undone'
s_Undone ==
    <<"U", "n", "d", "o", "n", "e">>

\* 'DONE!'
s_DONE_bang ==
    <<"D", "O", "N", "E", "!">>

\* 'Do you want to continue? (y/n)'
s_do_you_want ==
    <<"D", "o", " ", "y", "o", "u", " ", "w", "a", "n", "t", " ", "t", "o",
      " ", "c", "o", "n", "t", "i", "n", "u", "e", "?", " ", "(", "y", "/",
      "n", ")">>

\* 'read file A'
s_read_file_A ==
    <<"r", "e", "a", "d", " ", "f", "i", "l", "e", " ", "A">>

\* 'write file B'
s_write_file_B ==
    <<"w", "r", "i", "t", "e", " ", "f", "i", "l", "e", " ", "B">>

\* 'build'
s_build ==
    <<"b", "u", "i", "l", "d">>

\* 'demo'
s_demo ==
    <<"d", "e", "m", "o">>

\* '# No instructions found\n\nPlease create an instructions.json file.'
s_No_instructions ==
    <<"#", " ", "N", "o", " ", "i", "n", "s", "t", "r", "u", "c", "t", "i",
      "o", "n", "s", " ", "f", "o", "u", "n", "d", "\n", "\n", "P", "l", "e",
      "a", "s", "e", " ", "c", "r", "e", "a", "t", "e", " ", "a", "n", " ",
      "i", "n", "s", "t", "r", "u", "c", "t", "i", "o", "n", "s", ".", "j",
      "s", "o", "n", " ", "f", "i", "l", "e", ".">>

\* '# Error reading instructions\n\n'
s_Error_reading ==
    <<"#", " ", "E", "r", "r", "o", "r", " ", "r", "e", "a", "d", "i", "n",
      "g", " ", "i", "n", "s", "t", "r", "u", "c", "t", "i", "o", "n", "s",
      "\n", "\n">>

\* 'Invalid JSON format: '
s_Invalid_JSON ==
    <<"I", "n", "v", "a", "l", "i", "d", " ", "J", "S", "O", "N", " ", "f",
      "o", "r", "m", "a", "t", ":", " ">>

\* 'No goal specified'
s_No_goal ==
    <<"N", "o", " ", "g", "o", "a", "l", " ", "s", "p", "e", "c", "i", "f",
      "i", "e", "d">>

\* 'AI Development Instructions'
s_AI_Development ==
    <<"A", "I", " ", "D", "e", "v", "e", "l", "o", "p", "m", "e", "n", "t",
      " ", "I", "n", "s", "t", "r", "u", "c", "t", "i", "o", "n", "s">>

\* '\n\n## Current Goal:\n'
s_Current_Goal ==
    <<"\n", "\n", "#", "#", " ", "C", "u", "r", "r", "e", "n", "t", " ", "G",
      "o", "a", "l", ":", "\n">>

\* '\n\n## Steps ('
s_Steps_open ==
    <<"\n", "\n", "#", "#", " ", "S", "t", "e", "p", "s", " ", "(">>

\* ' total):'
s_Steps_close ==
    <<" ", "t", "o", "t", "a", "l", ")", ":">>

\* '. '
s_dot ==
    <<".", " ">>

\* '...'
s_ellipsis ==
    <<".", ".", ".">>

\* '?'
s_question_mark ==
    <<"?">>

(***************************************************************************)
(* Python string operations.                                               *)
(***************************************************************************)

LowerAlphabet ==
    <<"a", "b", "c", "d", "e", "f", "g", "h", "i", "j", "k", "l", "m",
      "n", "o", "p", "q", "r", "s", "t", "u", "v", "w", "x", "y", "z">>

UpperAlphabet ==
    <<"A", "B", "C", "D", "E", "F", "G", "H", "I", "J", "K", "L", "M",
      "N", "O", "P", "Q", "R", "S", "T", "U", "V", "W", "X", "Y", "Z">>

\* the lower-case letter of each upper-case letter
ToLower ==
    [c \in {UpperAlphabet[i] : i \in 1..26} |->
        LowerAlphabet[CHOOSE i \in 1..26 : UpperAlphabet[i] = c]]

\* the upper-case letter of each lower-case letter
ToUpper ==
    [c \in {LowerAlphabet[i] : i \in 1..26} |->
        UpperAlphabet[CHOOSE i \in 1..26 : LowerAlphabet[i] = c]]

\* str.upper() on one character
UpperChar(c) == IF c \in DOMAIN ToUpper THEN ToUpper[c] ELSE c

\* str.lower() on one character
LowerChar(c) == IF c \in DOMAIN ToLower THEN ToLower[c] ELSE c

\* s.upper()
Upper(s) == [i \in 1..Len(s) |-> UpperChar(s[i])]

\* s.lower()
Lower(s) == [i \in 1..Len(s) |-> LowerChar(s[i])]

\* pat in s   (substring test on str)
Contains(s, pat) ==
    \E i \in 0..(Len(s) - Len(pat)) :
        \A j \in 1..Len(pat) : s[i + j] = pat[j]

DigitChar == <<"0", "1", "2", "3", "4", "5", "6", "7", "8", "9">>

\* str(n) for a non-negative int, as the f-strings format it
RECURSIVE IntToStr(_)
IntToStr(n) ==
    IF n < 10 THEN <<DigitChar[n + 1]>>
    ELSE IntToStr(n \div 10) \o <<DigitChar[(n % 10) + 1]>>

\* sep.join(xs)
RECURSIVE Join(_, _)
Join(sep, xs) ==
    IF xs = <<>> THEN <<>>
    ELSE IF Len(xs) = 1 THEN xs[1]
    ELSE xs[1] \o sep \o Join(sep, Tail(xs))

(***************************************************************************)
(* JSON values as json.loads returns them.                                 *)
(***************************************************************************)

JNull == [t |-> "null"]
JNum(n) == [t |-> "num", n |-> n]
JBool(b) == [t |-> "bool", b |-> b]
JStr(s) == [t |-> "str", s |-> s]
JList(xs) == [t |-> "list", items |-> xs]
JDict(d) == [t |-> "dict", d |-> d]

\* {}
EmptyDict == [k \in {} |-> JNull]

\* the text of a dictionary key
KeyChars(k) ==
    CASE k = "jsonrpc" -> s_jsonrpc
      [] k = "id" -> s_id
      [] k = "method" -> s_method
      [] k = "params" -> s_params
      [] k = "name" -> s_name
      [] k = "arguments" -> s_arguments
      [] k = "content" -> s_content
      [] k = "text" -> s_text
      [] k = "messages" -> s_messages
      [] k = "step" -> s_step
      [] k = "description" -> s_description
      [] k = "goal" -> s_goal
      [] k = "steps" -> s_steps

\* bool(v): Python truthiness of a decoded value
Truthy(v) ==
    CASE v.t = "null" -> FALSE
      [] v.t = "num" -> v.n # 0
      [] v.t = "bool" -> v.b
      [] v.t = "str" -> v.s # <<>>
      [] v.t = "list" -> v.items # <<>>
      [] v.t = "dict" -> DOMAIN v.d # {}

\* hasattr(v, "get"): only a dict has .get
HasGet(v) == v.t = "dict"

\* v.get(k, default) for a dict v
Get(v, k, default) == IF k \in DOMAIN v.d THEN v.d[k] ELSE default

\* v.get(k): the default is None
GetOrNone(v, k) == Get(v, k, JNull)

\* `k in v` raises TypeError for None, numbers and booleans
InRaises(v) == v.t \in {"null", "num", "bool"}

\* `k in v` for a str key k: a key of a dict, an element of a list,
\* a substring of a str
In(k, v) ==
    CASE v.t = "dict" -> k \in DOMAIN v.d
      [] v.t = "list" -> \E i \in DOMAIN v.items : v.items[i] = JStr(KeyChars(k))
      [] v.t = "str" -> Contains(v.s, KeyChars(k))
      [] OTHER -> FALSE

\* the elements a for loop over v visits
Elements(v) ==
    CASE v.t = "list" -> {v.items[i] : i \in DOMAIN v.items}
      [] v.t = "str" -> {JStr(<<v.s[i]>>) : i \in DOMAIN v.s}
      [] v.t = "dict" -> {JStr(KeyChars(k)) : k \in DOMAIN v.d}
      [] OTHER -> {}

\* pat in json.dumps(v).lower(), for a pattern of letters and spaces: such a
\* pattern lies inside one of the string literals that json.dumps writes (a
\* key or a str value), because it cannot span the quotes that delimit them
RECURSIVE InMsgStr(_, _)
InMsgStr(pat, v) ==
    CASE v.t = "str" -> Contains(Lower(v.s), pat)
      [] v.t = "list" -> \E i \in DOMAIN v.items : InMsgStr(pat, v.items[i])
      [] v.t = "dict" -> \E k \in DOMAIN v.d :
                            \/ Contains(Lower(KeyChars(k)), pat)
                            \/ InMsgStr(pat, v.d[k])
      [] OTHER -> FALSE

(***************************************************************************)
(* The vocabularies of the classifier and the texts classified.            *)
(***************************************************************************)

\* 'user'
s_kw_user ==
    <<"u", "s", "e", "r">>

\* 'input'
s_kw_input ==
    <<"i", "n", "p", "u", "t">>

\* 'prompt'
s_kw_prompt ==
    <<"p", "r", "o", "m", "p", "t">>

\* 'question'
s_kw_question ==
    <<"q", "u", "e", "s", "t", "i", "o", "n">>

\* 'ask'
s_kw_ask ==
    <<"a", "s", "k">>

\* 'confirm'
s_kw_confirm ==
    <<"c", "o", "n", "f", "i", "r", "m">>

\* 'choose'
s_kw_choose ==
    <<"c", "h", "o", "o", "s", "e">>

\* 'select'
s_kw_select ==
    <<"s", "e", "l", "e", "c", "t">>

\* 'enter'
s_kw_enter ==
    <<"e", "n", "t", "e", "r">>

\* 'provide'
s_kw_provide ==
    <<"p", "r", "o", "v", "i", "d", "e">>

\* 'what would you like'
s_ph_what_would_you_like ==
    <<"w", "h", "a", "t", " ", "w", "o", "u", "l", "d", " ", "y", "o", "u",
      " ", "l", "i", "k", "e">>

\* 'please provide'
s_ph_please_provide ==
    <<"p", "l", "e", "a", "s", "e", " ", "p", "r", "o", "v", "i", "d", "e">>

\* 'please enter'
s_ph_please_enter ==
    <<"p", "l", "e", "a", "s", "e", " ", "e", "n", "t", "e", "r">>

\* 'please specify'
s_ph_please_specify ==
    <<"p", "l", "e", "a", "s", "e", " ", "s", "p", "e", "c", "i", "f", "y">>

\* 'please choose'
s_ph_please_choose ==
    <<"p", "l", "e", "a", "s", "e", " ", "c", "h", "o", "o", "s", "e">>

\* 'please select'
s_ph_please_select ==
    <<"p", "l", "e", "a", "s", "e", " ", "s", "e", "l", "e", "c", "t">>

\* 'do you want'
s_ph_do_you_want ==
    <<"d", "o", " ", "y", "o", "u", " ", "w", "a", "n", "t">>

\* 'would you prefer'
s_ph_would_you_prefer ==
    <<"w", "o", "u", "l", "d", " ", "y", "o", "u", " ", "p", "r", "e", "f",
      "e", "r">>

\* 'which option'
s_ph_which_option ==
    <<"w", "h", "i", "c", "h", " ", "o", "p", "t", "i", "o", "n">>

\* 'how would you like'
s_ph_how_would_you_like ==
    <<"h", "o", "w", " ", "w", "o", "u", "l", "d", " ", "y", "o", "u", " ",
      "l", "i", "k", "e">>

\* 'please confirm'
s_ph_please_confirm ==
    <<"p", "l", "e", "a", "s", "e", " ", "c", "o", "n", "f", "i", "r", "m">>

\* 'please tell me'
s_ph_please_tell_me ==
    <<"p", "l", "e", "a", "s", "e", " ", "t", "e", "l", "l", " ", "m", "e">>

\* 'what should'
s_ph_what_should ==
    <<"w", "h", "a", "t", " ", "s", "h", "o", "u", "l", "d">>

\* 'please input'
s_ph_please_input ==
    <<"p", "l", "e", "a", "s", "e", " ", "i", "n", "p", "u", "t">>

\* 'enter your'
s_ph_enter_your ==
    <<"e", "n", "t", "e", "r", " ", "y", "o", "u", "r">>

\* 'type your'
s_ph_type_your ==
    <<"t", "y", "p", "e", " ", "y", "o", "u", "r">>

\* 'specify the'
s_ph_specify_the ==
    <<"s", "p", "e", "c", "i", "f", "y", " ", "t", "h", "e">>

\* 'Please confirm your input'
s_please_confirm_input ==
    <<"P", "l", "e", "a", "s", "e", " ", "c", "o", "n", "f", "i", "r", "m",
      " ", "y", "o", "u", "r", " ", "i", "n", "p", "u", "t">>

\* 'Press Enter to continue'
s_press_enter ==
    <<"P", "r", "e", "s", "s", " ", "E", "n", "t", "e", "r", " ", "t", "o",
      " ", "c", "o", "n", "t", "i", "n", "u", "e">>

\* 'Normal execution message'
s_normal_message ==
    <<"N", "o", "r", "m", "a", "l", " ", "e", "x", "e", "c", "u", "t", "i",
      "o", "n", " ", "m", "e", "s", "s", "a", "g", "e">>

\* 'Do you want it? Please provide the name'
s_want_and_provide ==
    <<"D", "o", " ", "y", "o", "u", " ", "w", "a", "n", "t", " ", "i", "t",
      "?", " ", "P", "l", "e", "a", "s", "e", " ", "p", "r", "o", "v", "i",
      "d", "e", " ", "t", "h", "e", " ", "n", "a", "m", "e">>

\* user_prompt_indicators, in the order of the list
user_prompt_indicators ==
    <<s_kw_user, s_kw_input, s_kw_prompt, s_kw_question,
      s_kw_ask, s_kw_confirm, s_kw_choose, s_kw_select,
      s_kw_enter, s_kw_provide>>

\* chat_prompt_patterns, in the order of the list
chat_prompt_patterns ==
    <<s_ph_what_would_you_like, s_ph_please_provide, s_ph_please_enter,
      s_ph_please_specify, s_ph_please_choose, s_ph_please_select,
      s_ph_do_you_want, s_ph_would_you_prefer, s_ph_which_option,
      s_ph_how_would_you_like, s_ph_please_confirm, s_ph_please_tell_me,
      s_ph_what_should, s_ph_please_input, s_ph_enter_your,
      s_ph_type_your, s_ph_specify_the>>

(***************************************************************************)
(* Bounds of the model.                                                    *)
(***************************************************************************)

\* direct add_to_history calls are enabled while current_step is below this
MaxStep == 3

\* the step sources tried hold up to this many steps
MaxFileSteps == 2

(***************************************************************************)
(* State.                                                                  *)
(***************************************************************************)

VARIABLES
    current_step,       \* executor.current_step
    history,            \* executor.history: a list of str
    goal_achieved,      \* executor.goal_achieved
    instructions_json,  \* what is on disk at executor.instructions_file
    msg,                \* the local `msg` of mcp_server, kept across iterations
    pc,                 \* "reading": in the for loop; "eof": stdin ended;
                        \* "crashed": an exception left mcp_server
    last,               \* the operation handled last, the executor as it was
                        \* before it, what the operation wrote to stdout and
                        \* to the log file, whether it emptied the log file,
                        \* and what a direct call returned
    interruption_handler,   \* the ExecutionInterruptionHandler: its state,
                            \* its policy and the ticks it has been idle
    handler_last,       \* the call of the handler made last, the handler as
                        \* it was before it, and what the call returned
    current_build_id,   \* TelegramServer.current_build_id
    build_sessions,     \* TelegramServer.build_sessions: build id -> session
    client_thread,      \* per client socket: where its handle_client thread
                        \* stands, the message it is handling, how many it read
    bot_thread,         \* where the bot's handler stands and its locals
    sockets,            \* per client socket: whether it is open and what the
                        \* server has sent on it
    bot_last            \* the Telegram text handled last: what the relay read
                        \* while handling it, where it sent and what it replied

\* the variables of the executor and of the protocol loop
executor_vars == <<current_step, history, goal_achieved, instructions_json, msg, pc, last>>

\* the variables of the interruption handler
handler_vars == <<interruption_handler, handler_last>>

\* the variables of the Telegram relay
telegram_vars == <<current_build_id, build_sessions, client_thread, bot_thread,
                   sockets, bot_last>>

vars == <<current_step, history, goal_achieved, instructions_json, msg, pc, last,
          interruption_handler, handler_last,
          current_build_id, build_sessions, client_thread, bot_thread,
          sockets, bot_last>>

\* the executor's fields as one record
Executor == [current_step |-> current_step, history |-> history,
             goal_achieved |-> goal_achieved]

(***************************************************************************)
(* class InstructionExecutor                                               *)
(***************************************************************************)

\* InstructionExecutor.__init__: the fields of a new executor
NewExecutor == [current_step |-> 0, history |-> <<>>, goal_achieved |-> FALSE]

\* a faulty add_to_history that forgets its second append; C8 fails with it
add_to_history_one_record(ex, user_input, llm_response) ==
    [current_step |-> ex.current_step + 1,
     history |-> Append(ex.history, s_USER \o user_input),
     goal_achieved |-> IF Contains(Upper(llm_response), s_DONE)
                       THEN TRUE ELSE ex.goal_achieved]

\* a faulty add_to_history that assigns the DONE test to goal_achieved;
\* C9 fails with it
add_to_history_not_sticky(ex, user_input, llm_response) ==
    [current_step |-> ex.current_step + 1,
     history |-> Append(Append(ex.history, s_USER \o user_input), s_AI \o llm_response),
     goal_achieved |-> Contains(Upper(llm_response), s_DONE)]

\* a faulty add_to_history that advances the cursor by two; C18 fails with it
add_to_history_two_steps(ex, user_input, llm_response) ==
    [current_step |-> ex.current_step + 2,
     history |-> Append(Append(ex.history, s_USER \o user_input), s_AI \o llm_response),
     goal_achieved |-> IF Contains(Upper(llm_response), s_DONE)
                       THEN TRUE ELSE ex.goal_achieved]

\* a faulty add_to_history that appends the ai record before the user
\* record; C21 fails with it
add_to_history_ai_first(ex, user_input, llm_response) ==
    [current_step |-> ex.current_step + 1,
     history |-> Append(Append(ex.history, s_AI \o llm_response), s_USER \o user_input),
     goal_achieved |-> IF Contains(Upper(llm_response), s_DONE)
                       THEN TRUE ELSE ex.goal_achieved]

\* InstructionExecutor.add_to_history(user_input, llm_response)
add_to_history(ex, user_input, llm_response) ==
    [current_step |-> ex.current_step + 1,
     history |-> Append(Append(ex.history, s_USER \o user_input), s_AI \o llm_response),
     goal_achieved |-> IF Contains(Upper(llm_response), s_DONE)
                       THEN TRUE ELSE ex.goal_achieved]

\* a faulty clear_cache that forgets `self.current_step = 0`; C29 fails
\* with it
clear_cache_keeps_step(ex) ==
    [current_step |-> ex.current_step, history |-> <<>>, goal_achieved |-> FALSE]

\* a faulty clear_cache that forgets `self.history = []`; C23 fails with it
clear_cache_keeps_history(ex) ==
    [current_step |-> 0, history |-> ex.history, goal_achieved |-> FALSE]

\* a faulty clear_cache that forgets `self.goal_achieved = False`;
\* C10 fails with it
clear_cache_keeps_goal(ex) ==
    [current_step |-> 0, history |-> <<>>, goal_achieved |-> ex.goal_achieved]

\* InstructionExecutor.clear_cache()
clear_cache(ex) ==
    [current_step |-> 0, history |-> <<>>, goal_achieved |-> FALSE]

(***************************************************************************)
(* The step source, instructions.json.                                     *)
(***************************************************************************)

\* the file does not exist
FileAbsent == [t |-> "absent"]

\* the file exists and json.loads raises JSONDecodeError on its text
FileInvalid == [t |-> "invalid"]

\* the file exists and json.loads returns v
FileJson(v) == [t |-> "json", v |-> v]

(***************************************************************************)
(* send_mcp and the messages written to stdout.                            *)
(***************************************************************************)

\* the response dict of a successful call
ResultResponse(id, result) == [jsonrpc |-> "2.0", id |-> id, result |-> result]

\* a faulty error response that also carries a result key; C4 fails with it
ErrorResponse_with_result(id, code, message) ==
    [jsonrpc |-> "2.0", id |-> id, result |-> JNull,
     error |-> [code |-> code, message |-> message]]

\* the response dict of a failed call
ErrorResponse(id, code, message) ==
    [jsonrpc |-> "2.0", id |-> id, error |-> [code |-> code, message |-> message]]

\* the result of a tool: one text content and the isError flag
ToolResult(text, isError) ==
    [content |-> <<[type |-> "text", text |-> text]>>, isError |-> isError]

\* f"{v}" for the values the model formats
Format(v) ==
    CASE v.t = "str" -> v.s
      [] v.t = "num" -> IntToStr(v.n)
      [] v.t = "null" -> s_None

\* read_instructions(): the markdown rendering of the step source, or the
\* text that reports why it cannot be rendered (str(e) is left out of it)
read_instructions(file) ==
    IF file.t = "absent" THEN s_No_instructions
    ELSE IF file.t = "invalid" THEN s_Error_reading \o s_Invalid_JSON
    ELSE IF ~HasGet(file.v) THEN s_Error_reading
    ELSE LET data == file.v
             goal == Get(data, "goal", JStr(s_No_goal))
             description == Get(data, "description", JStr(s_AI_Development))
             steps == Get(data, "steps", JList(<<>>))
             StepLine(step) == s_newline \o Format(step.d.step) \o s_dot
                                         \o Format(step.d.description)
         IN  IF \/ InRaises(steps)
                \/ \E step \in Elements(steps) :
                      \/ step.t # "dict"
                      \/ ~({"step", "description"} \subseteq DOMAIN step.d)
             THEN s_Error_reading
             ELSE s_plan_hash \o Format(description) \o s_Current_Goal \o Format(goal)
                  \o s_Steps_open \o IntToStr(Cardinality(Elements(steps))) \o s_Steps_close
                  \o (IF steps.t = "list"
                      THEN Join(<<>>, [i \in DOMAIN steps.items |-> StepLine(steps.items[i])])
                      ELSE <<>>)

\* 'No more steps to execute or step data not found.'
s_No_more_steps ==
    <<"N", "o", " ", "m", "o", "r", "e", " ", "s", "t", "e", "p", "s", " ",
      "t", "o", " ", "e", "x", "e", "c", "u", "t", "e", " ", "o", "r", " ",
      "s", "t", "e", "p", " ", "d", "a", "t", "a", " ", "n", "o", "t", " ",
      "f", "o", "u", "n", "d", ".">>

\* '\n\nPlease execute this step using your available tools.'
s_Please_execute ==
    <<"\n", "\n", "P", "l", "e", "a", "s", "e", " ", "e", "x", "e", "c", "u",
      "t", "e", " ", "t", "h", "i", "s", " ", "s", "t", "e", "p", " ", "u",
      "s", "i", "n", "g", " ", "y", "o", "u", "r", " ", "a", "v", "a", "i",
      "l", "a", "b", "l", "e", " ", "t", "o", "o", "l", "s", ".">>

\* a call returned v
Returned(v) == [t |-> "return", v |-> v]

\* a call raised
Raised == [t |-> "raise"]

\* InstructionExecutor.get_current_step_data(): the step at the cursor, or
\* None (JNull); every exception of the try block is caught
get_current_step_data(ex, file) ==
    IF file.t = "absent" THEN JNull
    ELSE IF file.t = "invalid" THEN JNull
    ELSE IF ~HasGet(file.v) THEN JNull
    ELSE LET steps == Get(file.v, "steps", JList(<<>>))
         IN  CASE steps.t = "list" ->
                    IF ex.current_step < Len(steps.items)
                    THEN steps.items[ex.current_step + 1] ELSE JNull
               [] steps.t = "str" ->
                    IF ex.current_step < Len(steps.s)
                    THEN JStr(<<steps.s[ex.current_step + 1]>>) ELSE JNull
               [] OTHER -> JNull

\* InstructionExecutor.execute_current_step(): what it returns, or that it
\* raised
execute_current_step(ex, file) ==
    LET step_data == get_current_step_data(ex, file)
    IN  IF ~Truthy(step_data) THEN Returned(JStr(s_No_more_steps))
        ELSE IF ~HasGet(step_data) THEN Raised
        ELSE Returned(JStr(s_plan_STEP \o Format(Get(step_data, "step", JNum(0)))
                           \o s_plan_colon
                           \o Format(Get(step_data, "description", JStr(<<>>)))
                           \o s_Please_execute))

(***************************************************************************)
(* mcp_server: message interception (the classifier).  Only what can raise  *)
(* or change the executor is modelled here; the rest writes to the log.     *)
(***************************************************************************)

\* msg.get("params", {})
MsgParams(m) == Get(m, "params", JDict(EmptyDict))

\* "Detect execution status messages and extract chat content":
\* TRUE when the block raises
ContentRaises(m) ==
    /\ \/ Get(m, "method", JStr(s_unknown)) = JStr(s_notifications_message)
       \/ InMsgStr(s_content, m)
    /\ \/ ~HasGet(MsgParams(m))
       \/ LET content == Get(MsgParams(m), "content", JStr(<<>>))
          IN  Truthy(content) /\ content.t # "str"

\* one element of params["messages"] in the text extraction: TRUE when
\* `... + "\n"` is applied to a value that is not a str
MessageTextRaises(message) ==
    /\ message.t = "dict"
    /\ IF "content" \in DOMAIN message.d
       THEN LET content_obj == message.d.content
            IN  /\ content_obj.t = "dict"
                /\ "text" \in DOMAIN content_obj.d
                /\ content_obj.d.text.t # "str"
       ELSE /\ "text" \in DOMAIN message.d
            /\ message.d.text.t # "str"

\* "Enhanced content extraction for different message types":
\* TRUE when the block raises
TextRaises(m) ==
    LET params == MsgParams(m)
    IN  IF InRaises(params) THEN TRUE
        ELSE IF In("text", params)
        THEN \/ ~HasGet(params)
             \/ LET text_content == Get(params, "text", JStr(<<>>))
                IN  Truthy(text_content) /\ text_content.t # "str"
        ELSE IF In("messages", params)
        THEN \/ ~HasGet(params)
             \/ LET messages == Get(params, "messages", JList(<<>>))
                IN  \/ InRaises(messages)
                    \/ \E message \in Elements(messages) : MessageTextRaises(message)
        ELSE FALSE

\* "Track execution flow": TRUE when msg.get("params", {}).get raises
ToolTrackRaises(m) ==
    /\ Get(m, "method", JStr(s_unknown)) = JStr(s_tools_call)
    /\ ~HasGet(MsgParams(m))

\* "Track execution flow": TRUE when the tracked tool is run_full_execution
MonitoringStarted(m) ==
    /\ Get(m, "method", JStr(s_unknown)) = JStr(s_tools_call)
    /\ Get(MsgParams(m), "name", JStr(s_unknown)) = JStr(s_run_full_execution)

\* one element of params["messages"] of a sampling request: TRUE when it raises
SamplingMessageRaises(message) ==
    \/ ~HasGet(message)
    \/ LET content == Get(message, "content", JDict(EmptyDict))
       IN  /\ content.t = "dict"
           /\ LET text == Get(content, "text", JStr(<<>>))
              IN  CASE text.t = "str" -> FALSE
                    [] text.t = "list" ->
                         ~(\E i \in DOMAIN text.items : text.items[i] = JStr(s_question_mark))
                    [] OTHER -> TRUE

\* "Check for sampling requests": TRUE when the block raises
SamplingRaises(m) ==
    /\ Get(m, "method", JStr(s_unknown)) = JStr(s_sampling_createMessage)
    /\ \/ ~HasGet(MsgParams(m))
       \/ LET messages == Get(MsgParams(m), "messages", JList(<<>>))
          IN  \/ InRaises(messages)
              \/ \E message \in Elements(messages) : SamplingMessageRaises(message)

\* the interception after the detection loops raises on m
InterceptionRaises(m) ==
    ContentRaises(m) \/ TextRaises(m) \/ ToolTrackRaises(m) \/ SamplingRaises(m)

\* `for x in list: if x in msg_str: ... break`: the index of the entry the
\* loop stops at, 0 when it runs to its end
FirstMatch(list, m) ==
    IF \E i \in DOMAIN list : InMsgStr(list[i], m)
    THEN CHOOSE i \in DOMAIN list :
            /\ InMsgStr(list[i], m)
            /\ \A j \in 1..(i - 1) : ~InMsgStr(list[j], m)
    ELSE 0

\* an entry of the log file: its level, the kind of detection it reports
\* and the token quoted in it
LogEntry(level, kind, token) == [level |-> level, kind |-> kind, token |-> token]

\* what the two detection loops log
Detections(m) ==
    LET indicator == FirstMatch(user_prompt_indicators, m)
        pattern == FirstMatch(chat_prompt_patterns, m)
    IN  (IF indicator > 0
         THEN <<LogEntry("ALERT", "user_interaction", user_prompt_indicators[indicator])>>
         ELSE <<>>)
        \o (IF pattern > 0
            THEN <<LogEntry("CHAT_PROMPT", "chat_prompt", chat_prompt_patterns[pattern])>>
            ELSE <<>>)

\* a faulty summary that reports the generic keyword before the chat-prompt
\* phrase; C13 fails with it
Summary_keyword_first(m) ==
    LET indicator == FirstMatch(user_prompt_indicators, m)
        pattern == FirstMatch(chat_prompt_patterns, m)
    IN  IF indicator > 0
        THEN LogEntry("SUMMARY", "user_interaction", user_prompt_indicators[indicator])
        ELSE IF pattern > 0
        THEN LogEntry("SUMMARY", "chat_prompt", chat_prompt_patterns[pattern])
        ELSE LogEntry("DEBUG", "none", <<>>)

\* "Log summary of detection results"
Summary(m) ==
    LET indicator == FirstMatch(user_prompt_indicators, m)
        pattern == FirstMatch(chat_prompt_patterns, m)
    IN  IF pattern > 0
        THEN LogEntry("SUMMARY", "chat_prompt", chat_prompt_patterns[pattern])
        ELSE IF indicator > 0
        THEN LogEntry("SUMMARY", "user_interaction", user_prompt_indicators[indicator])
        ELSE LogEntry("DEBUG", "none", <<>>)

\* the detections and the summary that the interception logs for m; the
\* summary is not reached when the interception raises, and nothing is
\* logged of them when m has no .get
InterceptionLog(m) ==
    IF ~HasGet(m) THEN <<>>
    ELSE Detections(m) \o (IF InterceptionRaises(m) THEN <<>> ELSE <<Summary(m)>>)

(***************************************************************************)
(* mcp_server: dispatch.  A handler returns the executor it leaves, the     *)
(* messages it sent with send_mcp, and whether it raised.                   *)
(***************************************************************************)

Outcome(ex, sent, raised) == [ex |-> ex, sent |-> sent, raised |-> raised]

\* the result of initialize
InitializeResult ==
    [protocolVersion |-> "2025-06-18",
     capabilities |-> [tools |-> [listChanged |-> FALSE]],
     serverInfo |-> [name |-> "instruction_executor", version |-> "1.0.0"]]

\* the names that tools/list enumerates, in its order
ToolNames ==
    <<s_get_current_state, s_reset_execution, s_get_history,
      s_run_full_execution, s_clear_cache>>

\* the result of tools/list
ToolsListResult ==
    [tools |-> [i \in DOMAIN ToolNames |->
                  [name |-> ToolNames[i],
                   inputSchema |-> [type |-> "object", properties |-> EmptyDict]]]]

\* instructions_content of get_current_state: the first 200 characters and
\* "..." when the rendering is longer
InstructionsContent(file) ==
    LET text == read_instructions(file)
    IN  IF Len(text) > 200 THEN SubSeq(text, 1, 200) \o s_ellipsis ELSE text

\* a faulty get_current_state that leaves a new executor; C17 fails with it
get_current_state_resetting(m, ex, file) ==
    Outcome(NewExecutor,
            <<ResultResponse(GetOrNone(m, "id"), ToolResult(s_Execution_reset, FALSE))>>,
            FALSE)

\* tool get_current_state (the state mapping stands for its json.dumps text)
get_current_state(m, ex, file) ==
    Outcome(ex,
            <<ResultResponse(GetOrNone(m, "id"),
                [content |-> <<[type |-> "text",
                                state |-> [current_step |-> ex.current_step,
                                           goal_achieved |-> ex.goal_achieved,
                                           history_length |-> Len(ex.history),
                                           instructions_content |-> InstructionsContent(file)]]>>,
                 isError |-> FALSE])>>,
            FALSE)

\* tool reset_execution: executor = InstructionExecutor()
reset_execution(m, ex, file) ==
    Outcome(NewExecutor,
            <<ResultResponse(GetOrNone(m, "id"), ToolResult(s_Execution_reset, FALSE))>>,
            FALSE)

\* a faulty get_history that renders an empty history as the empty join;
\* C12 fails with it
get_history_without_sentinel(m, ex, file) ==
    Outcome(ex,
            <<ResultResponse(GetOrNone(m, "id"),
                             ToolResult(Join(s_newline, ex.history), FALSE))>>,
            FALSE)

\* tool get_history
get_history(m, ex, file) ==
    LET history_text == IF ex.history = <<>> THEN s_No_history
                        ELSE Join(s_newline, ex.history)
    IN  Outcome(ex,
                <<ResultResponse(GetOrNone(m, "id"), ToolResult(history_text, FALSE))>>,
                FALSE)

\* the execution plan that run_full_execution sends
ExecutionPlan(data, steps) ==
    LET goal == Get(data, "goal", JStr(s_Complete_the_instructions))
        description == Get(data, "description", JStr(s_Instruction_Execution))
        StepText(step) == s_plan_STEP \o Format(Get(step, "step", JNum(0))) \o s_plan_colon
                          \o Format(Get(step, "description", JStr(<<>>))) \o s_plan_stepsep
    IN  s_plan_hash \o Format(description) \o s_plan_goal \o Format(goal) \o s_plan_header
        \o Join(<<>>, [i \in DOMAIN steps.items |-> StepText(steps.items[i])])
        \o s_plan_task \o IntToStr(Len(steps.items)) \o s_plan_trailer

\* tool run_full_execution
run_full_execution(m, ex, file) ==
    LET cleared == clear_cache(ex)
    IN  IF file.t = "invalid" THEN Outcome(cleared, <<>>, TRUE)
        ELSE LET instructions_data == IF file.t = "absent" THEN JDict(EmptyDict) ELSE file.v
             IN  IF ~HasGet(instructions_data) THEN Outcome(cleared, <<>>, TRUE)
                 ELSE LET steps == Get(instructions_data, "steps", JList(<<>>))
                      IN  IF ~Truthy(steps)
                          THEN Outcome(cleared,
                                       <<ResultResponse(GetOrNone(m, "id"),
                                                        ToolResult(s_No_steps, TRUE))>>,
                                       FALSE)
                          ELSE IF \/ InRaises(steps)
                                  \/ \E step \in Elements(steps) : ~HasGet(step)
                          THEN Outcome(cleared, <<>>, TRUE)
                          ELSE Outcome(add_to_history(cleared, s_Full_execution_started,
                                           s_Executing \o IntToStr(Len(steps.items))
                                                       \o s_steps_suffix),
                                       <<ResultResponse(GetOrNone(m, "id"),
                                            ToolResult(ExecutionPlan(instructions_data, steps),
                                                       FALSE))>>,
                                       FALSE)

\* tool clear_cache
clear_cache_tool(m, ex, file) ==
    Outcome(clear_cache(ex),
            <<ResultResponse(GetOrNone(m, "id"), ToolResult(s_Cache_cleared, FALSE))>>,
            FALSE)

\* the else branch of tools/call: "Unknown tool"
unknown_tool(m, ex, tool_name) ==
    Outcome(ex,
            <<ErrorResponse(GetOrNone(m, "id"), -32602,
                            s_Unknown_tool \o Format(tool_name))>>,
            FALSE)

\* the branch of tools/call
tools_call(m, ex, file) ==
    IF ~HasGet(MsgParams(m)) THEN Outcome(ex, <<>>, TRUE)
    ELSE LET tool_name == GetOrNone(MsgParams(m), "name")
         IN  CASE tool_name = JStr(s_get_current_state) -> get_current_state(m, ex, file)
               [] tool_name = JStr(s_reset_execution) -> reset_execution(m, ex, file)
               [] tool_name = JStr(s_get_history) -> get_history(m, ex, file)
               [] tool_name = JStr(s_run_full_execution) -> run_full_execution(m, ex, file)
               [] tool_name = JStr(s_clear_cache) -> clear_cache_tool(m, ex, file)
               [] OTHER -> unknown_tool(m, ex, tool_name)

\* the if/elif chain on msg.get("method"); no branch for any other method
Dispatch(m, ex, file) ==
    LET method == GetOrNone(m, "method")
    IN  CASE method = JStr(s_initialize) ->
               Outcome(ex, <<ResultResponse(GetOrNone(m, "id"), InitializeResult)>>, FALSE)
          [] method = JStr(s_tools_list) ->
               Outcome(ex, <<ResultResponse(GetOrNone(m, "id"), ToolsListResult)>>, FALSE)
          [] method = JStr(s_tools_call) -> tools_call(m, ex, file)
          [] OTHER -> Outcome(ex, <<>>, FALSE)

\* the try block after json.loads succeeded with m
TryBlock(m, ex, file) ==
    IF ~HasGet(m) THEN Outcome(ex, <<>>, TRUE)
    ELSE IF ContentRaises(m) \/ TextRaises(m) \/ ToolTrackRaises(m)
    THEN Outcome(ex, <<>>, TRUE)
    ELSE LET monitored == IF MonitoringStarted(m)
                          THEN add_to_history(ex, s_Monitoring_started, s_Watching)
                          ELSE ex
         IN  IF SamplingRaises(m) THEN Outcome(monitored, <<>>, TRUE)
             ELSE Dispatch(m, monitored, file)

\* `msg` is not in locals()
Unbound == [t |-> "unbound"]

\* the except block: m is the local msg at that point.  The handler itself
\* raises when m is bound to a value without .get, and the exception then
\* leaves mcp_server.
ExceptBlock(m) ==
    IF m = Unbound
    THEN [sent |-> <<ErrorResponse(JNull, -32603, s_Internal_error)>>, escaped |-> FALSE]
    ELSE IF HasGet(m)
    THEN [sent |-> <<ErrorResponse(GetOrNone(m, "id"), -32603, s_Internal_error)>>,
          escaped |-> FALSE]
    ELSE [sent |-> <<>>, escaped |-> TRUE]

\* a line of stdin that json.loads cannot decode
NotJson == [t |-> "text"]

\* a line of stdin that json.loads decodes to v
JsonLine(v) == [t |-> "json", v |-> v]

\* one iteration of `for line in sys.stdin`
LoopBody(line, local, ex, file) ==
    IF line.t = "text"
    THEN LET handled == ExceptBlock(local)
         IN  [ex |-> ex, msg |-> local, sent |-> handled.sent, escaped |-> handled.escaped]
    ELSE LET tried == TryBlock(line.v, ex, file)
         IN  IF tried.raised
             THEN LET handled == ExceptBlock(line.v)
                  IN  [ex |-> tried.ex, msg |-> line.v,
                       sent |-> tried.sent \o handled.sent, escaped |-> handled.escaped]
             ELSE [ex |-> tried.ex, msg |-> line.v, sent |-> tried.sent, escaped |-> FALSE]

(***************************************************************************)
(* Inputs: the lines a driver writes to stdin and the step sources on disk. *)
(***************************************************************************)

\* the request ids tried
Ids == {1, 2}

\* "id" of a request: absent, or a number
IdFields == {EmptyDict} \cup {[id |-> JNum(i)] : i \in Ids}

\* the methods tried: the three handled ones and three without a branch
MethodFields ==
    {[method |-> JStr(s)] : s \in {s_initialize, s_tools_list, s_tools_call, s_ping,
                                   s_notifications_message, s_sampling_createMessage}}

\* tool names of tools/call requests: the five tools, one that is not a tool,
\* and no name
NameFields ==
    {[name |-> JStr(ToolNames[i])] : i \in DOMAIN ToolNames}
    \cup {[name |-> JStr(s_nonexistent_tool)], EmptyDict}

\* what else params carries: the payloads the interception scans
PayloadFields ==
    {[content |-> JNum(5)],
     [content |-> JStr(s_do_you_want)],
     [text |-> JNum(5)],
     [text |-> JStr(s_ok)],
     [messages |-> JNum(5)],
     [messages |-> JList(<<JStr(s_ok)>>)],
     [messages |-> JList(<<JDict([content |-> JDict([text |-> JStr(s_do_you_want)])])>>)],
     [messages |-> JList(<<JDict([text |-> JNull])>>)]}

\* "params" that is not a mapping
NonMappingParams ==
    {[params |-> JNull], [params |-> JList(<<>>)],
     [params |-> JStr(s_ok)], [params |-> JStr(s_content)]}

\* tools/call requests: every name, with and without id, params a mapping
ToolCallRequests ==
    {JDict(i @@ [method |-> JStr(s_tools_call), params |-> JDict(n)]) :
        i \in IdFields, n \in NameFields}

\* requests without params: every method and no method, with and without id
BareRequests ==
    {JDict(i @@ f) : i \in IdFields \cup {[id |-> JNull]},
                     f \in MethodFields \cup {EmptyDict}}

\* requests with id 1 whose params is of an unexpected shape
OddRequests ==
    {JDict([id |-> JNum(1)] @@ f @@ p) :
        f \in {[method |-> JStr(s_tools_call)], [method |-> JStr(s_initialize)],
               [method |-> JStr(s_sampling_createMessage)]},
        p \in NonMappingParams \cup {[params |-> JDict(q)] : q \in PayloadFields}}
    \cup {JDict([id |-> JNum(1), method |-> JStr(s_tools_call), params |-> JDict(n @@ q)]) :
            n \in {[name |-> JStr(s_nonexistent_tool)], [name |-> JStr(s_reset_execution)],
                   [name |-> JStr(s_get_history)]},
            q \in PayloadFields}

\* the texts tried for the classifier
ClassifiedTexts ==
    {s_do_you_want, s_please_confirm_input, s_press_enter, s_normal_message,
     s_want_and_provide}

\* messages that carry a text for the classifier, as a notification and as
\* the content of a request
TextRequests ==
    {JDict([method |-> JStr(s_notifications_message), params |-> JDict([text |-> JStr(t)])]) :
        t \in ClassifiedTexts}
    \cup {JDict([id |-> JNum(1), method |-> JStr(s_tools_list),
                 params |-> JDict([content |-> JStr(t)])]) :
            t \in {s_please_confirm_input, s_normal_message}}

\* the JSON objects tried as requests
Requests == ToolCallRequests \cup BareRequests \cup OddRequests \cup TextRequests

\* the lines tried: not JSON, JSON that is not an object, and the requests
Lines ==
    {NotJson}
    \cup {JsonLine(v) : v \in {JNull, JStr(s_ok), JList(<<JNum(1)>>)}}
    \cup {JsonLine(v) : v \in Requests}

\* handling m reaches executor.clear_cache(), which opens the log file for
\* writing and empties it: the tools run_full_execution and clear_cache
ClearsLog(m) ==
    /\ HasGet(m)
    /\ ~InterceptionRaises(m)
    /\ GetOrNone(m, "method") = JStr(s_tools_call)
    /\ HasGet(MsgParams(m))
    /\ GetOrNone(MsgParams(m), "name") \in {JStr(s_run_full_execution), JStr(s_clear_cache)}

\* whether the log file is emptied while the line is handled, for each line
\* tried, computed once
TruncatedForLine ==
    [line \in Lines |-> IF line.t = "text" THEN FALSE ELSE ClearsLog(line.v)]

\* the log of the interception for each line tried, computed once
LoggedForLine ==
    [line \in Lines |-> IF line.t = "text" THEN <<>> ELSE InterceptionLog(line.v)]

\* a step source of n well-formed steps
StepList(n) ==
    JList([i \in 1..n |->
             JDict([step |-> JNum(i),
                    description |-> JStr(IF i % 2 = 1 THEN s_read_file_A
                                         ELSE s_write_file_B)])])

\* a step source of eleven well-formed steps, one more than the ceiling of
\* ten that a run is specified to have
LongSource ==
    FileJson(JDict([goal |-> JStr(s_build), description |-> JStr(s_demo),
                    steps |-> StepList(11)]))

\* the contents of instructions.json tried
Files ==
    {FileAbsent, FileInvalid, LongSource,
     FileJson(JList(<<>>)),
     FileJson(JDict([steps |-> JStr(s_ok)])),
     FileJson(JDict([steps |-> JList(<<JNum(1)>>)]))}
    \cup {FileJson(JDict([goal |-> JStr(s_build), description |-> JStr(s_demo),
                          steps |-> StepList(n)])) : n \in 0..MaxFileSteps}

\* the texts tried as arguments of direct add_to_history calls
UserInputs == {s_go}

\* the response texts tried: without DONE, and with it in three spellings
LlmResponses == {s_ok, s_DONE_bang, s_done_lower, s_Undone}

\* well-formed tools/call requests, one per tool
ToolCalls ==
    {JsonLine(JDict([id |-> JNum(1), method |-> JStr(s_tools_call),
                     params |-> JDict([name |-> JStr(ToolNames[i])])])) :
        i \in DOMAIN ToolNames}

(***************************************************************************)
(* ExecutionInterruptionHandler.  test_interruption_handling.py imports it  *)
(* from instruction_executor and calls detect_interruption,                 *)
(* handle_interruption and reset; its code is not part of the sources, and  *)
(* it is modelled here from the specification of the handler (the pattern   *)
(* classifier and the state machine Idle, Armed, Triggered, auto-answered   *)
(* or surfaced, Idle).                                                      *)
(***************************************************************************)

\* 'y\n'
s_y_newline ==
    <<"y", "\n">>

\* 'yes\n'
s_yes_newline ==
    <<"y", "e", "s", "\n">>

\* 'please'
s_please ==
    <<"p", "l", "e", "a", "s", "e">>

\* 'Are you sure you want to delete this file?'
s_are_you_sure ==
    <<"A", "r", "e", " ", "y", "o", "u", " ", "s", "u", "r", "e", " ", "y",
      "o", "u", " ", "w", "a", "n", "t", " ", "t", "o", " ", "d", "e", "l",
      "e", "t", "e", " ", "t", "h", "i", "s", " ", "f", "i", "l", "e", "?">>

\* the largest idle_timeout tried, in ticks of the clock
MaxIdleTimeout == 2

\* the third tier of the classifier: the question heuristic
question_tokens ==
    <<s_question_mark, s_please, s_kw_enter, s_kw_input, s_kw_choose, s_kw_select,
      s_kw_confirm>>

\* the index of the first entry of the list that the text contains, 0 when
\* it contains none
FirstIn(list, text) ==
    IF \E i \in DOMAIN list : Contains(text, list[i])
    THEN CHOOSE i \in DOMAIN list :
            /\ Contains(text, list[i])
            /\ \A j \in 1..(i - 1) : ~Contains(text, list[j])
    ELSE 0

\* classify(text): the text in lowercase against the three tiers, the most
\* specific first; the first match wins and its token is recorded
classify(text) ==
    LET lowered == Lower(text)
        phrase == FirstIn(chat_prompt_patterns, lowered)
        keyword == FirstIn(user_prompt_indicators, lowered)
        question == FirstIn(question_tokens, lowered)
    IN  IF phrase > 0
        THEN [pattern_kind |-> "chat_prompt", matched_token |-> chat_prompt_patterns[phrase]]
        ELSE IF keyword > 0
        THEN [pattern_kind |-> "generic_interaction",
              matched_token |-> user_prompt_indicators[keyword]]
        ELSE IF question > 0
        THEN [pattern_kind |-> "question", matched_token |-> question_tokens[question]]
        ELSE [pattern_kind |-> "none", matched_token |-> <<>>]

\* the signal of handle_interruption that the caller must block and surface
\* the prompt
MustSurface == [t |-> "surface"]

\* a text returned as an answer
Answer(text) == [t |-> "answer", s |-> text]

\* the boolean that detect_interruption returns
Detected(b) == [t |-> "bool", b |-> b]

\* the call returns nothing
NoReturn == [t |-> "none"]

\* a handler as constructed: Idle, with its auto-confirm policy
NewHandler(policy) == [state |-> "Idle", policy |-> policy, idle |-> 0]

\* a run begins: an Idle handler is Armed
begin_run(h) ==
    IF h.state = "Idle" THEN [h EXCEPT !.state = "Armed"] ELSE h

\* detect_interruption(text): true iff the classifier finds a pattern; an
\* Armed handler is Triggered the moment it returns true
detect_interruption(h, text) ==
    LET detected == classify(text).pattern_kind # "none"
    IN  [h |-> IF detected /\ h.state = "Armed"
               THEN [h EXCEPT !.state = "Triggered", !.idle = 0]
               ELSE h,
         ret |-> Detected(detected)]

\* a faulty handle_interruption that surfaces the prompt whatever the
\* policy; C19 fails with it
handle_interruption_always_surfacing(h) ==
    [h |-> IF h.state = "Triggered" THEN [h EXCEPT !.state = "Surfaced"] ELSE h,
     ret |-> MustSurface]

\* handle_interruption(): the configured response when the policy is
\* enabled, the signal to surface the prompt when it is not; a Triggered
\* handler resolves to auto-answered or surfaced
handle_interruption(h) ==
    IF h.policy.enabled
    THEN [h |-> IF h.state = "Triggered" THEN [h EXCEPT !.state = "AutoAnswered"] ELSE h,
          ret |-> Answer(h.policy.response_text)]
    ELSE [h |-> IF h.state = "Triggered" THEN [h EXCEPT !.state = "Surfaced"] ELSE h,
          ret |-> MustSurface]

\* reset(): any state back to Idle
reset(h) == [h EXCEPT !.state = "Idle", !.idle = 0]

\* the interruption is Triggered and not resolved
Unresolved(h) == h.state \in {"Triggered", "Surfaced"}

\* a faulty livelock guard that answers only when the policy is enabled;
\* C20 fails with it
idle_timeout_elapsed_when_enabled(h) ==
    IF h.policy.enabled
    THEN [h |-> [h EXCEPT !.state = "AutoAnswered"], ret |-> Answer(h.policy.response_text)]
    ELSE [h |-> h, ret |-> MustSurface]

\* the livelock guard: the idle_timeout elapsed while Triggered and
\* unresolved, and the handler auto-answers whatever policy.enabled is
idle_timeout_elapsed(h) ==
    [h |-> [h EXCEPT !.state = "AutoAnswered"], ret |-> Answer(h.policy.response_text)]

\* an external caller supplies the answer to a surfaced prompt
supply_answer(h) == [h EXCEPT !.state = "Idle", !.idle = 0]

\* the auto-confirm policies tried
Policies ==
    [enabled : BOOLEAN, response_text : {s_y_newline, s_yes_newline},
     idle_timeout : 1..MaxIdleTimeout]

\* the messages tried for detect_interruption
Messages == {s_do_you_want, s_are_you_sure, s_normal_message, s_press_enter}

\* the handler of Init: auto-confirm enabled, answering 'y\n'
DefaultPolicy == [enabled |-> TRUE, response_text |-> s_y_newline, idle_timeout |-> 1]

\* requests of the operations that only read, with and without a payload
\* for the interception
ReadOnlyRequests ==
    {JsonLine(JDict([id |-> JNum(1), method |-> JStr(s)])) : s \in {s_initialize, s_tools_list}}
    \cup {JsonLine(JDict([id |-> JNum(1), method |-> JStr(s_initialize), params |-> JNull]))}
    \cup {JsonLine(JDict([id |-> JNum(1), method |-> JStr(s_tools_call),
                          params |-> JDict([name |-> JStr(s_get_history)] @@ q)])) :
            q \in {[content |-> JStr(s_do_you_want)], [text |-> JNum(5)]}}

(***************************************************************************)
(* The Telegram relay (telegram_server.py): the build scripts' sockets,    *)
(* the sessions, and the decisions of the bot's message handler.  The      *)
(* client threads and the bot's handler share current_build_id and         *)
(* build_sessions without a lock; a thread is interleaved with the others  *)
(* between two of its statements.                                          *)
(***************************************************************************)

\* the client sockets the server can accept
Clients == {"c1", "c2"}

\* the build ids a build script can announce
BuildIds == {"b1", "b2"}

\* how many messages the client threads read, all together
MaxClientMessages == 3

\* how many Telegram texts the bot handles
MaxTexts == 2

\* Python's None as the value of current_build_id and of an absent field
None == "None"

\* no session held in the local `session`
NoSession == [socket |-> None, status |-> None]

\* {'socket': client_socket, 'status': 'running'}
Session(client_socket) == [socket |-> client_socket, status |-> "running"]

\* build_sessions = {}
EmptySessions == [k \in {} |-> NoSession]

\* sessions[id] = session
SetItem(sessions, id, session) ==
    [k \in DOMAIN sessions \cup {id} |-> IF k = id THEN session ELSE sessions[k]]

\* del sessions[id]
DelItem(sessions, id) == [k \in DOMAIN sessions \ {id} |-> sessions[k]]

\* TelegramServer.__init__: no build is current and no session exists
NewTelegramServer == [current_build_id |-> None, build_sessions |-> EmptySessions]

\* str.strip() for texts padded with blanks
RECURSIVE Strip(_)
Strip(s) ==
    IF s = <<>> THEN s
    ELSE IF Head(s) = " " THEN Strip(Tail(s))
    ELSE IF s[Len(s)] = " " THEN Strip(SubSeq(s, 1, Len(s) - 1))
    ELSE s

\* "help"
s_help == <<"h", "e", "l", "p">>

\* the texts a chat member sends
TelegramTexts ==
    { s_help,
      <<"H", "e", "l", "p", " ">>,
      <<"y", "e", "s">>,
      <<" ", "n", "o">>,
      <<" ">> }

\* what a build script writes on its socket: one JSON message per recv(), or
\* bytes that json.loads rejects
ClientMessages ==
    {[type |-> "build_start", build_id |-> b] : b \in BuildIds}
    \cup {[type |-> t, build_id |-> None] : t \in {"build_progress", "build_complete", "not json"}}

\* a build_complete that found nothing to delete
NothingRemoved == "nothing removed"

\* no message in handling
NoMessage == [type |-> None, build_id |-> None]

\* the replies of the relay to the chat; the source prefixes them with an emoji
reply_help == "Build with Telegram Bot"
reply_no_active == "No active build session."
reply_sent == "Response sent to build script"
reply_failed == "Failed to send response"
no_reply == "no reply"

\* a faulty handler that forwards every text other than "help", whether a
\* build is current or not; C30 fails with it
handle_telegram_message_always_forwarding(text, build_id) ==
    LET message_text == Strip(text) IN
    IF Lower(message_text) = s_help
    THEN [branch |-> "help", message_text |-> message_text]
    ELSE [branch |-> "forward", message_text |-> message_text]

\* handle_telegram_message: the branch taken for a text, given the value of
\* self.current_build_id it reads
handle_telegram_message(text, build_id) ==
    LET message_text == Strip(text) IN
    IF Lower(message_text) = s_help
    THEN [branch |-> "help", message_text |-> message_text]
    ELSE IF build_id # None /\ message_text # <<>>
    THEN [branch |-> "forward", message_text |-> message_text]
    ELSE [branch |-> "no_active", message_text |-> message_text]

\* forward_to_build: `if self.current_build_id and self.current_build_id in
\* self.build_sessions`
forward_to_build_guard(build_id, sessions) ==
    build_id # None /\ build_id \in DOMAIN sessions

\* the JSON object forward_to_build sends on the session's socket
user_response(message) == [type |-> "user_response", message |-> message]

\* the relay before any client connected and any text arrived
TelegramAtStart ==
    /\ current_build_id = NewTelegramServer.current_build_id
    /\ build_sessions = NewTelegramServer.build_sessions
    /\ client_thread = [c \in Clients |-> [pc |-> "unconnected", message |-> NoMessage,
                                           received |-> 0, announced |-> <<>>,
                                           removed |-> None]]
    /\ bot_thread = [pc |-> "idle", message_text |-> <<>>, session |-> NoSession,
                     handled |-> 0]
    /\ sockets = [c \in Clients |-> [open |-> FALSE, data |-> <<>>]]
    /\ bot_last = [text |-> <<>>, branch |-> "start", dispatch_build |-> None,
                   check_build |-> None, lookup_build |-> None,
                   lookup_sessions |-> EmptySessions, sent_to |-> None,
                   reply |-> no_reply, pre_sockets |-> sockets]

(***************************************************************************)
(* Initial state and actions.                                              *)
(***************************************************************************)

\* executor = InstructionExecutor() at import; mcp_server() about to read
Init ==
    /\ current_step = NewExecutor.current_step
    /\ history = NewExecutor.history
    /\ goal_achieved = NewExecutor.goal_achieved
    /\ instructions_json \in Files
    /\ msg = Unbound
    /\ pc = "reading"
    /\ last = [op |-> "start", arg |-> <<>>, pre |-> NewExecutor, out |-> <<>>,
               log |-> <<>>, ret |-> NoReturn, truncated |-> FALSE]
    /\ interruption_handler = NewHandler(DefaultPolicy)
    /\ handler_last = [op |-> "start", arg |-> <<>>, pre |-> NewHandler(DefaultPolicy),
                       ret |-> NoReturn, truncated |-> FALSE]
    /\ TelegramAtStart

\* the executor's fields become those of ex
SetExecutor(ex) ==
    /\ current_step' = ex.current_step
    /\ history' = ex.history
    /\ goal_achieved' = ex.goal_achieved

\* a faulty loop that goes on reading after stdin has ended; C27 fails
\* with it
InTheLoop_after_eof == pc \in {"reading", "eof"}

\* `for line in sys.stdin`: the loop is at its head, stdin has not ended
\* and no exception has left mcp_server
InTheLoop == pc = "reading"

\* mcp_server reads one line from stdin and runs the loop body on it
ReadLine(line) ==
    /\ InTheLoop
    /\ LET done == LoopBody(line, msg, Executor, instructions_json)
       IN  /\ SetExecutor(done.ex)
           /\ msg' = done.msg
           /\ pc' = IF done.escaped THEN "crashed" ELSE "reading"
           /\ last' = [op |-> "line", arg |-> line, pre |-> Executor, out |-> done.sent,
                       log |-> LoggedForLine[line], ret |-> NoReturn,
                       truncated |-> TruncatedForLine[line]]
    /\ UNCHANGED <<instructions_json, handler_vars, telegram_vars>>

\* stdin ends: the for loop ends and mcp_server returns
EndOfInput ==
    /\ InTheLoop
    /\ pc' = "eof"
    /\ UNCHANGED <<current_step, history, goal_achieved, instructions_json, msg, last>>
    /\ UNCHANGED <<handler_vars, telegram_vars>>

\* someone edits instructions.json between two requests
EditInstructions(file) ==
    /\ pc = "reading"
    /\ file # instructions_json
    /\ instructions_json' = file
    /\ last' = [op |-> "edit", arg |-> file, pre |-> Executor, out |-> <<>>,
                log |-> <<>>, ret |-> NoReturn, truncated |-> FALSE]
    /\ UNCHANGED <<current_step, history, goal_achieved, msg, pc, handler_vars, telegram_vars>>

\* a direct call executor.add_to_history(user_input, llm_response)
CallAddToHistory(user_input, llm_response) ==
    /\ pc = "reading"
    /\ current_step < MaxStep
    /\ SetExecutor(add_to_history(Executor, user_input, llm_response))
    /\ last' = [op |-> "add_to_history", arg |-> <<user_input, llm_response>>,
                pre |-> Executor, out |-> <<>>, log |-> <<>>, ret |-> NoReturn, truncated |-> FALSE]
    /\ UNCHANGED <<instructions_json, msg, pc, handler_vars, telegram_vars>>

\* a direct call executor.clear_cache()
CallClearCache ==
    /\ pc = "reading"
    /\ SetExecutor(clear_cache(Executor))
    /\ last' = [op |-> "clear_cache", arg |-> <<>>, pre |-> Executor, out |-> <<>>,
                log |-> <<>>, ret |-> NoReturn, truncated |-> TRUE]
    /\ UNCHANGED <<instructions_json, msg, pc, handler_vars, telegram_vars>>

\* a direct call executor.get_current_step_data()
CallGetCurrentStepData ==
    /\ pc = "reading"
    /\ last' = [op |-> "get_current_step_data", arg |-> <<>>, pre |-> Executor,
                out |-> <<>>, log |-> <<>>,
                ret |-> Returned(get_current_step_data(Executor, instructions_json)),
                truncated |-> FALSE]
    /\ UNCHANGED <<current_step, history, goal_achieved, instructions_json, msg, pc,
                   handler_vars, telegram_vars>>

\* a direct call executor.execute_current_step()
CallExecuteCurrentStep ==
    /\ pc = "reading"
    /\ last' = [op |-> "execute_current_step", arg |-> <<>>, pre |-> Executor,
                out |-> <<>>, log |-> <<>>,
                ret |-> execute_current_step(Executor, instructions_json),
                truncated |-> FALSE]
    /\ UNCHANGED <<current_step, history, goal_achieved, instructions_json, msg, pc,
                   handler_vars, telegram_vars>>

\* the protocol server: every step is driven by stdin or by the disk
Next ==
    \/ \E line \in Lines : ReadLine(line)
    \/ EndOfInput
    \/ \E file \in Files : EditInstructions(file)

Spec == Init /\ [][Next]_vars

\* the executor driven through its tools and through direct calls
NextExecutor ==
    \/ \E line \in ToolCalls \cup ReadOnlyRequests : ReadLine(line)
    \/ \E user_input \in UserInputs, llm_response \in LlmResponses :
          CallAddToHistory(user_input, llm_response)
    \/ CallClearCache
    \/ CallGetCurrentStepData
    \/ CallExecuteCurrentStep

SpecExecutor == Init /\ [][NextExecutor]_vars

\* the state of the handler becomes h, after the call op(arg) that returned ret
SetHandler(op, arg, h, ret) ==
    /\ interruption_handler' = h
    /\ handler_last' = [op |-> op, arg |-> arg, pre |-> interruption_handler, ret |-> ret]
    /\ UNCHANGED <<executor_vars, telegram_vars>>

\* a handler is constructed with some policy, nothing called yet
InitHandler ==
    /\ current_step = NewExecutor.current_step
    /\ history = NewExecutor.history
    /\ goal_achieved = NewExecutor.goal_achieved
    /\ instructions_json = FileAbsent
    /\ msg = Unbound
    /\ pc = "reading"
    /\ last = [op |-> "start", arg |-> <<>>, pre |-> NewExecutor, out |-> <<>>,
               log |-> <<>>, ret |-> NoReturn, truncated |-> FALSE]
    /\ \E policy \in Policies :
          /\ interruption_handler = NewHandler(policy)
          /\ handler_last = [op |-> "start", arg |-> <<>>, pre |-> NewHandler(policy),
                             ret |-> NoReturn, truncated |-> FALSE]
    /\ TelegramAtStart

\* a run begins
BeginRun ==
    /\ interruption_handler.state = "Idle"
    /\ SetHandler("begin_run", <<>>, begin_run(interruption_handler), NoReturn)

\* handler.detect_interruption(message)
DetectInterruption(message) ==
    LET called == detect_interruption(interruption_handler, message)
    IN  SetHandler("detect_interruption", message, called.h, called.ret)

\* handler.handle_interruption()
HandleInterruption ==
    LET called == handle_interruption(interruption_handler)
    IN  SetHandler("handle_interruption", <<>>, called.h, called.ret)

\* handler.reset()
Reset ==
    SetHandler("reset", <<>>, reset(interruption_handler), NoReturn)

\* the clock ticks while the interruption is unresolved
Tick ==
    /\ Unresolved(interruption_handler)
    /\ interruption_handler.idle < interruption_handler.policy.idle_timeout
    /\ SetHandler("tick", <<>>,
                  [interruption_handler EXCEPT !.idle = @ + 1], NoReturn)

\* the idle_timeout has elapsed while the interruption is unresolved
IdleTimeout ==
    /\ Unresolved(interruption_handler)
    /\ interruption_handler.idle >= interruption_handler.policy.idle_timeout
    /\ LET guarded == idle_timeout_elapsed(interruption_handler)
       IN  SetHandler("idle_timeout", <<>>, guarded.h, guarded.ret)

\* an external caller answers a surfaced prompt
SupplyAnswer ==
    /\ interruption_handler.state = "Surfaced"
    /\ SetHandler("supply_answer", <<>>, supply_answer(interruption_handler), NoReturn)

\* the handler, driven by a run and by the clock
NextHandler ==
    \/ BeginRun
    \/ \E message \in Messages : DetectInterruption(message)
    \/ HandleInterruption
    \/ Reset
    \/ Tick
    \/ IdleTimeout
    \/ SupplyAnswer

SpecHandler == InitHandler /\ [][NextHandler]_vars

\* the clock goes on, and an elapsed timeout is acted on
FairSpecHandler ==
    SpecHandler /\ WF_vars(Tick) /\ WF_vars(IdleTimeout)

(***************************************************************************)
(* The Telegram relay's threads.  _run_server starts one handle_client     *)
(* thread per accepted socket; the bot's handler runs in the bot's thread. *)
(* Each action is one statement that reads or writes the shared fields,    *)
(* together with the statements around it that touch none of them.         *)
(***************************************************************************)

\* the thread of client c moves to pc, holding message
\* The record also notes, for the claims, the build ids the client announced
\* in its build_start messages, in order, and, until the build_complete in
\* handling is done, what it deleted from build_sessions.
MoveClient(c, to, message, received) ==
    LET from == client_thread[c] IN
    client_thread' = [client_thread EXCEPT ![c] =
        [pc |-> to, message |-> message, received |-> received,
         announced |-> IF to = "build_start_register"
                       THEN Append(from.announced, message.build_id)
                       ELSE from.announced,
         removed |-> CASE to \in {"build_complete_check", "recv", "closed"} -> None
                       [] to = "build_complete_clear" /\ from.pc = "build_complete_del" ->
                            current_build_id
                       [] to = "build_complete_clear" /\ from.pc = "build_complete_check" ->
                            NothingRemoved
                       [] OTHER -> from.removed]]

\* the messages the threads of the clients cs have read
RECURSIVE Received(_)
Received(cs) ==
    IF cs = {} THEN 0
    ELSE LET c == CHOOSE x \in cs : TRUE IN
         client_thread[c].received + Received(cs \ {c})

\* handle_client's `finally: client_socket.close()`
CloseClient(c) ==
    /\ MoveClient(c, "closed", NoMessage, client_thread[c].received)
    /\ sockets' = [sockets EXCEPT ![c].open = FALSE]

\* _run_server: accept() and the start of the client's thread
Accept(c) ==
    /\ client_thread[c].pc = "unconnected"
    /\ MoveClient(c, "recv", NoMessage, 0)
    /\ sockets' = [sockets EXCEPT ![c].open = TRUE]
    /\ UNCHANGED <<current_build_id, build_sessions, bot_thread, bot_last>>
    /\ UNCHANGED <<executor_vars, handler_vars>>

\* handle_client: recv() returns no data, the loop breaks and the socket closes
ClientDisconnect(c) ==
    /\ client_thread[c].pc = "recv"
    /\ CloseClient(c)
    /\ UNCHANGED <<current_build_id, build_sessions, bot_thread, bot_last>>
    /\ UNCHANGED <<executor_vars, handler_vars>>

\* handle_client: recv(), json.loads and the first statement of the branch
\* of the message's type; build_start assigns current_build_id
ClientRecv(c, message) ==
    /\ client_thread[c].pc = "recv"
    /\ Received(Clients) < MaxClientMessages
    /\ LET n == client_thread[c].received + 1 IN
       CASE message.type = "not json" ->
              /\ MoveClient(c, "closed", NoMessage, n)
              /\ sockets' = [sockets EXCEPT ![c].open = FALSE]
              /\ UNCHANGED current_build_id
         [] message.type = "build_start" ->
              /\ current_build_id' = message.build_id
              /\ MoveClient(c, "build_start_register", message, n)
              /\ UNCHANGED sockets
         [] message.type = "build_progress" ->
              /\ MoveClient(c, "recv", NoMessage, n)
              /\ UNCHANGED <<current_build_id, sockets>>
         [] message.type = "build_complete" ->
              /\ MoveClient(c, "build_complete_check", message, n)
              /\ UNCHANGED <<current_build_id, sockets>>
    /\ UNCHANGED <<build_sessions, bot_thread, bot_last>>
    /\ UNCHANGED <<executor_vars, handler_vars>>

\* build_start: self.build_sessions[self.current_build_id] = {...}, then the
\* notification
BuildStartRegister(c) ==
    /\ client_thread[c].pc = "build_start_register"
    /\ build_sessions' = SetItem(build_sessions, current_build_id, Session(c))
    /\ MoveClient(c, "recv", NoMessage, client_thread[c].received)
    /\ UNCHANGED <<current_build_id, bot_thread, sockets, bot_last>>
    /\ UNCHANGED <<executor_vars, handler_vars>>

\* build_complete: `if self.current_build_id in self.build_sessions`
BuildCompleteCheck(c) ==
    /\ client_thread[c].pc = "build_complete_check"
    /\ MoveClient(c, IF current_build_id \in DOMAIN build_sessions
                     THEN "build_complete_del" ELSE "build_complete_clear",
                  client_thread[c].message, client_thread[c].received)
    /\ UNCHANGED <<current_build_id, build_sessions, bot_thread, sockets, bot_last>>
    /\ UNCHANGED <<executor_vars, handler_vars>>

\* build_complete: `del self.build_sessions[self.current_build_id]`; a
\* KeyError is caught by handle_client's except and the socket closes
BuildCompleteDel(c) ==
    /\ client_thread[c].pc = "build_complete_del"
    /\ IF current_build_id \in DOMAIN build_sessions
       THEN /\ build_sessions' = DelItem(build_sessions, current_build_id)
            /\ MoveClient(c, "build_complete_clear", client_thread[c].message,
                          client_thread[c].received)
            /\ UNCHANGED sockets
       ELSE /\ CloseClient(c)
            /\ UNCHANGED build_sessions
    /\ UNCHANGED <<current_build_id, bot_thread, bot_last>>
    /\ UNCHANGED <<executor_vars, handler_vars>>

\* a faulty build_complete that leaves current_build_id as it is; C33 fails
\* with it
BuildCompleteClear_keeping_the_build(c) ==
    /\ client_thread[c].pc = "build_complete_clear"
    /\ MoveClient(c, "recv", NoMessage, client_thread[c].received)
    /\ UNCHANGED <<current_build_id, build_sessions, bot_thread, sockets, bot_last>>
    /\ UNCHANGED <<executor_vars, handler_vars>>

\* build_complete: self.current_build_id = None
BuildCompleteClear(c) ==
    /\ client_thread[c].pc = "build_complete_clear"
    /\ current_build_id' = None
    /\ MoveClient(c, "recv", NoMessage, client_thread[c].received)
    /\ UNCHANGED <<build_sessions, bot_thread, sockets, bot_last>>
    /\ UNCHANGED <<executor_vars, handler_vars>>

\* handle_telegram_message for one text: the help reply, the call of
\* forward_to_build, or the reply that no build session is active
HandleTelegramMessage(text) ==
    /\ bot_thread.pc = "idle"
    /\ bot_thread.handled < MaxTexts
    /\ LET taken == handle_telegram_message(text, current_build_id) IN
       /\ bot_thread' = [pc |-> IF taken.branch = "forward" THEN "forward_check" ELSE "idle",
                         message_text |-> taken.message_text,
                         session |-> NoSession,
                         handled |-> bot_thread.handled + 1]
       /\ bot_last' = [text |-> text, branch |-> taken.branch,
                       dispatch_build |-> current_build_id,
                       check_build |-> None, lookup_build |-> None,
                       lookup_sessions |-> EmptySessions, sent_to |-> None,
                       reply |-> CASE taken.branch = "help" -> reply_help
                                   [] taken.branch = "no_active" -> reply_no_active
                                   [] OTHER -> no_reply,
                       pre_sockets |-> sockets]
    /\ UNCHANGED <<current_build_id, build_sessions, client_thread, sockets>>
    /\ UNCHANGED <<executor_vars, handler_vars>>

\* forward_to_build: the `if`; when it fails the method returns silently
ForwardCheck ==
    /\ bot_thread.pc = "forward_check"
    /\ bot_thread' = [bot_thread EXCEPT !.pc =
                        IF forward_to_build_guard(current_build_id, build_sessions)
                        THEN "forward_lookup" ELSE "idle"]
    /\ bot_last' = [bot_last EXCEPT !.check_build = current_build_id]
    /\ UNCHANGED <<current_build_id, build_sessions, client_thread, sockets>>
    /\ UNCHANGED <<executor_vars, handler_vars>>

\* forward_to_build: session = self.build_sessions[self.current_build_id];
\* a KeyError leaves the handler, and no reply is sent
ForwardLookup ==
    /\ bot_thread.pc = "forward_lookup"
    /\ IF current_build_id \in DOMAIN build_sessions
       THEN /\ bot_thread' = [bot_thread EXCEPT !.pc = "forward_send",
                                                !.session = build_sessions[current_build_id]]
            /\ bot_last' = [bot_last EXCEPT !.lookup_build = current_build_id,
                                            !.lookup_sessions = build_sessions]
       ELSE /\ bot_thread' = [bot_thread EXCEPT !.pc = "idle"]
            /\ bot_last' = [bot_last EXCEPT !.branch = "KeyError",
                                            !.lookup_build = current_build_id,
                                            !.lookup_sessions = build_sessions]
    /\ UNCHANGED <<current_build_id, build_sessions, client_thread, sockets>>
    /\ UNCHANGED <<executor_vars, handler_vars>>

\* forward_to_build: the try block; send() on a closed socket raises and the
\* failure is reported to the chat
ForwardSend ==
    /\ bot_thread.pc = "forward_send"
    /\ LET to == bot_thread.session.socket IN
       IF sockets[to].open
       THEN /\ sockets' = [sockets EXCEPT ![to].data =
                              Append(@, user_response(bot_thread.message_text))]
            /\ bot_last' = [bot_last EXCEPT !.sent_to = to, !.reply = reply_sent]
       ELSE /\ UNCHANGED sockets
            /\ bot_last' = [bot_last EXCEPT !.reply = reply_failed]
    /\ bot_thread' = [bot_thread EXCEPT !.pc = "idle", !.session = NoSession]
    /\ UNCHANGED <<current_build_id, build_sessions, client_thread>>
    /\ UNCHANGED <<executor_vars, handler_vars>>

\* the relay alone: the executor and the interruption handler stay as built
InitTelegram ==
    /\ current_step = NewExecutor.current_step
    /\ history = NewExecutor.history
    /\ goal_achieved = NewExecutor.goal_achieved
    /\ instructions_json = FileAbsent
    /\ msg = Unbound
    /\ pc = "reading"
    /\ last = [op |-> "start", arg |-> <<>>, pre |-> NewExecutor, out |-> <<>>,
               log |-> <<>>, ret |-> NoReturn, truncated |-> FALSE]
    /\ interruption_handler = NewHandler(DefaultPolicy)
    /\ handler_last = [op |-> "start", arg |-> <<>>, pre |-> NewHandler(DefaultPolicy),
                       ret |-> NoReturn, truncated |-> FALSE]
    /\ TelegramAtStart

NextTelegram ==
    \/ \E c \in Clients : Accept(c)
    \/ \E c \in Clients : ClientDisconnect(c)
    \/ \E c \in Clients, message \in ClientMessages : ClientRecv(c, message)
    \/ \E c \in Clients : BuildStartRegister(c)
    \/ \E c \in Clients : BuildCompleteCheck(c)
    \/ \E c \in Clients : BuildCompleteDel(c)
    \/ \E c \in Clients : BuildCompleteClear(c)
    \/ \E text \in TelegramTexts : HandleTelegramMessage(text)
    \/ ForwardCheck
    \/ ForwardLookup
    \/ ForwardSend

\* the relay with its client threads and the bot's handler interleaved
SpecTelegram == InitTelegram /\ [][NextTelegram]_vars


(***************************************************************************)
(* Vocabulary of the properties.                                           *)
(***************************************************************************)

\* the operation handled last was a line of stdin
LastIsLine == last.op = "line"

\* the line handled last decoded to a JSON object
LastIsRequest == LastIsLine /\ last.arg.t = "json" /\ last.arg.v.t = "dict"

\* the JSON object handled last
LastRequest == last.arg.v

\* m carries an id
CarriesId(m) == "id" \in DOMAIN m.d /\ m.d.id # JNull

\* m carries a method, and it is a string
HasMethod(m) == "method" \in DOMAIN m.d /\ m.d.method.t = "str"

\* m names one of the five tools
NamesATool(m) ==
    /\ "params" \in DOMAIN m.d
    /\ m.d.params.t = "dict"
    /\ "name" \in DOMAIN m.d.params.d
    /\ \E i \in DOMAIN ToolNames : m.d.params.d.name = JStr(ToolNames[i])

\* m is a tools/call request that names the tool `name`
CallsTool(m, name) ==
    /\ GetOrNone(m, "method") = JStr(s_tools_call)
    /\ "params" \in DOMAIN m.d
    /\ m.d.params.t = "dict"
    /\ GetOrNone(m.d.params, "name") = JStr(name)

\* the method of m is one of the three that mcp_server has a branch for
MethodIsHandled(m) ==
    GetOrNone(m, "method") \in {JStr(s_initialize), JStr(s_tools_list), JStr(s_tools_call)}

\* the line handled last got exactly one response, and it is a result
AnsweredWithResult == Len(last.out) = 1 /\ "result" \in DOMAIN last.out[1]

\* the line handled last got exactly one response, an error with this code
AnsweredWithError(code) ==
    /\ Len(last.out) = 1
    /\ "error" \in DOMAIN last.out[1]
    /\ last.out[1].error.code = code

(***************************************************************************)
(* C1.  Every request that carries an id gets exactly one response, and     *)
(* that response carries the id of the request, whatever the method.        *)
(* Stated as the claim states it; the code has no branch for a method       *)
(* other than initialize, tools/list and tools/call and writes nothing.     *)
(***************************************************************************)
C1_OneResponsePerRequest ==
    (LastIsRequest /\ CarriesId(LastRequest) /\ HasMethod(LastRequest))
        => /\ Len(last.out) = 1
           /\ last.out[1].id = LastRequest.d.id

(***************************************************************************)
(* C2.  The protocol loop never terminates on a single malformed line:      *)
(* after any line, the loop is still there to read the next one.            *)
(* Stated as the claim states it; a line that is JSON but not an object     *)
(* makes the except block itself raise.                                     *)
(***************************************************************************)
C2_LoopSurvivesEveryLine == LastIsLine => pc # "crashed"

(***************************************************************************)
(* C3.  The error response written for a line that cannot be parsed         *)
(* carries id = null, at any position in the input: as the first line, and  *)
(* after a request of a handled method.                                     *)
(* Stated as the claim states it; the except block reads the `msg` that an  *)
(* earlier iteration bound.                                                 *)
(***************************************************************************)
C3_UnparsableLineGetsNullId ==
    (/\ LastIsLine
     /\ last.arg.t = "text"
     /\ (msg = Unbound \/ MethodIsHandled(msg)))
        => /\ AnsweredWithError(-32603)
           /\ last.out[1].id = JNull

(***************************************************************************)
(* C4.  Every response written carries exactly one of result and error,     *)
(* on every path, the internal-error path included.                         *)
(***************************************************************************)
C4_ResultXorError ==
    \A i \in DOMAIN last.out :
        ("result" \in DOMAIN last.out[i]) # ("error" \in DOMAIN last.out[i])

\* C4 witness: a response of the internal-error path and, before it in the
\* same run, state left by a request that was answered with a result
C4_Witness ==
    /\ LastIsLine
    /\ AnsweredWithError(-32603)
    /\ current_step = 1

(***************************************************************************)
(* C5.  A tools/call request whose tool name is not one of the five tools   *)
(* (or is missing) gets an error response with code -32602 and the id of    *)
(* the request, and leaves current_step, history and goal_achieved as they  *)
(* were.  Stated as the claim states it; the interception raises on some    *)
(* payloads before the dispatch is reached, and the answer is then -32603.  *)
(***************************************************************************)
C5_UnknownToolRejected ==
    (/\ LastIsRequest
     /\ GetOrNone(LastRequest, "method") = JStr(s_tools_call)
     /\ ~NamesATool(LastRequest))
        => /\ AnsweredWithError(-32602)
           /\ last.out[1].id = GetOrNone(LastRequest, "id")
           /\ Executor = last.pre

(***************************************************************************)
(* C6.  A request whose method is not initialize, tools/list or tools/call  *)
(* is answered with an error response of code -32602, and the loop goes on. *)
(* Stated as the claim states it, for requests that carry an id.            *)
(***************************************************************************)
C6_UnknownMethodRejected ==
    (/\ LastIsRequest
     /\ CarriesId(LastRequest)
     /\ HasMethod(LastRequest)
     /\ ~MethodIsHandled(LastRequest))
        => /\ AnsweredWithError(-32602)
           /\ pc # "crashed"

(***************************************************************************)
(* C7.  A request that carries no id gets no response, whatever its method. *)
(* Stated as the claim states it; the handled methods answer with id null.  *)
(***************************************************************************)
C7_NotificationGetsNoResponse ==
    (LastIsRequest /\ "id" \notin DOMAIN LastRequest.d) => last.out = <<>>

(***************************************************************************)
(* C8.  In every reachable state of the executor, after any sequence of     *)
(* add_to_history, reset_execution, clear_cache and run_full_execution,     *)
(* len(history) is even and equals 2 * current_step.                        *)
(***************************************************************************)
C8_HistoryIsTwiceTheStep ==
    /\ Len(history) % 2 = 0
    /\ Len(history) = 2 * current_step

\* C8 witness: a second advance in a row has just been made
C8_Witness ==
    /\ last.op = "add_to_history"
    /\ last.pre.current_step = 1
    /\ current_step = 2
    /\ Len(history) = 4

\* the operation handled last resets the executor: the tools reset_execution,
\* clear_cache and run_full_execution, and a direct clear_cache()
LastIsReset ==
    \/ last.op = "clear_cache"
    \/ /\ LastIsRequest
       /\ \/ CallsTool(LastRequest, s_reset_execution)
          \/ CallsTool(LastRequest, s_clear_cache)
          \/ CallsTool(LastRequest, s_run_full_execution)

(***************************************************************************)
(* C9.  goal_achieved is sticky: when it was true before an operation that  *)
(* is not a reset (an advance with any response text, a read), it is true   *)
(* after it.                                                                *)
(***************************************************************************)
C9_GoalAchievedIsSticky ==
    (last.pre.goal_achieved /\ ~LastIsReset) => goal_achieved

\* C9 witness: the goal was achieved, and an advance whose response does not
\* contain DONE has been made since
C9_Witness ==
    /\ last.op = "add_to_history"
    /\ last.pre.goal_achieved
    /\ ~Contains(Upper(last.arg[2]), s_DONE)
    /\ goal_achieved

\* the operation handled last is the tool reset_execution or the tool
\* clear_cache, and the tool ran
LastIsResetTool ==
    /\ LastIsRequest
    /\ \/ CallsTool(LastRequest, s_reset_execution)
       \/ CallsTool(LastRequest, s_clear_cache)
    /\ AnsweredWithResult

(***************************************************************************)
(* C10.  The tools reset_execution and clear_cache leave current_step = 0,  *)
(* history empty and goal_achieved false, whatever the state before; and    *)
(* resetting again leaves that state as it is.                              *)
(***************************************************************************)
C10_ResetYieldsFreshState ==
    LastIsResetTool
        => /\ current_step = 0
           /\ history = <<>>
           /\ goal_achieved = FALSE
           /\ reset_execution(LastRequest, Executor, instructions_json).ex = Executor
           /\ clear_cache_tool(LastRequest, Executor, instructions_json).ex = Executor

\* C10 witness: a reset tool ran on an executor that had advanced and had
\* achieved its goal
C10_Witness ==
    /\ LastIsResetTool
    /\ last.pre.current_step > 0
    /\ last.pre.history # <<>>
    /\ last.pre.goal_achieved

\* the line handled last is a well-formed request for this tool: params
\* carries the name and nothing else
LastIsPlainCall(name) ==
    /\ LastIsRequest
    /\ CallsTool(LastRequest, name)
    /\ DOMAIN LastRequest.d.params.d = {"name"}

\* a step source of two well-formed steps
TwoStepSource ==
    FileJson(JDict([goal |-> JStr(s_build), description |-> JStr(s_demo),
                    steps |-> StepList(2)]))

(***************************************************************************)
(* C11.  run_full_execution advances the cursor once per step of the step   *)
(* source: with a step source of two steps, after the request               *)
(* current_step = 2 and len(history) = 4, and the response is a result      *)
(* that reports a run that did not achieve the goal.                        *)
(* Stated as the claim states it; the tool records one "Full execution      *)
(* started" entry, sends the execution plan and iterates over nothing.      *)
(***************************************************************************)
C11_RunAdvancesOncePerStep ==
    (/\ LastIsPlainCall(s_run_full_execution)
     /\ instructions_json = TwoStepSource)
        => /\ current_step = 2
           /\ Len(history) = 4
           /\ ~goal_achieved
           /\ AnsweredWithResult

\* the number of characters before entry i in the entries joined by one
\* separator character
RECURSIVE OffsetOf(_, _)
OffsetOf(entries, i) ==
    IF i = 1 THEN 0 ELSE OffsetOf(entries, i - 1) + Len(entries[i - 1]) + 1

\* text is the entries in their order, one newline between two of them
IsEntriesInOrder(text, entries) ==
    LET n == Len(entries)
    IN  /\ Len(text) = OffsetOf(entries, n) + Len(entries[n])
        /\ \A i \in 1..n :
              /\ SubSeq(text, OffsetOf(entries, i) + 1,
                        OffsetOf(entries, i) + Len(entries[i])) = entries[i]
              /\ i > 1 => text[OffsetOf(entries, i)] = "\n"

\* the line handled last is a get_history request, and the tool ran
LastIsGetHistory ==
    /\ LastIsRequest
    /\ CallsTool(LastRequest, s_get_history)
    /\ AnsweredWithResult

(***************************************************************************)
(* C12.  get_history returns the sentinel "No execution history yet."       *)
(* exactly when the history is empty, and otherwise the history entries     *)
(* joined in order; it never changes the state.                             *)
(***************************************************************************)
C12_GetHistoryRendersHistory ==
    LastIsGetHistory
        => LET text == last.out[1].result.content[1].text
           IN  /\ (text = s_No_history) <=> (last.pre.history = <<>>)
               /\ last.pre.history # <<>> => IsEntriesInOrder(text, last.pre.history)
               /\ last.out[1].result.isError = FALSE
               /\ Executor = last.pre

\* C12 witness: get_history ran on a history of two advances, the goal
\* achieved
C12_Witness ==
    /\ LastIsGetHistory
    /\ Len(last.pre.history) = 4
    /\ last.pre.goal_achieved
    /\ Len(last.out[1].result.content[1].text) > Len(s_No_history)

\* the entries of a list, as a set
Range(list) == {list[i] : i \in DOMAIN list}

\* the line handled last is a decoded message whose interception ran to its
\* summary
LastIsClassified ==
    /\ LastIsRequest
    /\ ~InterceptionRaises(LastRequest)

\* the classification reported for the line handled last: the summary, the
\* last entry that the interception logs
Reported == last.log[Len(last.log)]

\* the notification that carries this text
Notification(text) ==
    JDict([method |-> JStr(s_notifications_message), params |-> JDict([text |-> JStr(text)])])

(***************************************************************************)
(* C13.  The classification reported for a message is chat_prompt, with a   *)
(* phrase that the lowercased text contains as matched token, whenever the  *)
(* text contains a chat-prompt phrase, even if it also contains generic     *)
(* interaction keywords; it is the generic kind, with a keyword that the    *)
(* text contains, when the text contains only generic keywords; and none    *)
(* when it contains neither.  "Do you want to continue? (y/n)" is           *)
(* chat_prompt via "do you want"; "Normal execution message" is none.       *)
(***************************************************************************)
C13_ClassificationByTier ==
    LastIsClassified
        => LET phrases == {p \in Range(chat_prompt_patterns) : InMsgStr(p, LastRequest)}
               keywords == {k \in Range(user_prompt_indicators) : InMsgStr(k, LastRequest)}
           IN  /\ last.log # <<>>
               /\ phrases # {} => /\ Reported.kind = "chat_prompt"
                                  /\ Reported.token \in phrases
               /\ (phrases = {} /\ keywords # {})
                      => /\ Reported.kind = "user_interaction"
                         /\ Reported.token \in keywords
               /\ (phrases = {} /\ keywords = {}) => Reported.kind = "none"
               /\ LastRequest = Notification(s_do_you_want)
                      => /\ Reported.kind = "chat_prompt"
                         /\ Reported.token = s_ph_do_you_want
               /\ LastRequest = Notification(s_normal_message) => Reported.kind = "none"

\* C13 witness: a message whose text contains a chat-prompt phrase and
\* generic keywords was classified; both detections were logged and the
\* summary reports the phrase
C13_Witness ==
    /\ LastIsClassified
    /\ LastRequest = Notification(s_please_confirm_input)
    /\ Len(last.log) = 3
    /\ last.log[1].level = "ALERT"
    /\ Reported = LogEntry("SUMMARY", "chat_prompt", s_ph_please_confirm)

\* the request with the id, the method and the tool name of m and nothing
\* else for the interception to scan
Bare(m) ==
    LET kept == [k \in DOMAIN m.d \cap {"jsonrpc", "id", "method"} |-> m.d[k]]
        named == /\ "params" \in DOMAIN m.d
                 /\ m.d.params.t = "dict"
                 /\ "name" \in DOMAIN m.d.params.d
    IN  JDict(IF named
              THEN kept @@ [params |-> JDict([name |-> m.d.params.d.name])]
              ELSE kept)

(***************************************************************************)
(* C14.  Classification never blocks or alters dispatch: a request gets     *)
(* the response, and leaves the executor, that the request with the same    *)
(* id, method and tool name and nothing else gets and leaves from the same  *)
(* state, whatever the rest of the message.                                 *)
(* Stated as the claim states it; the interception raises on some payloads  *)
(* and the request is then answered with the internal error.                *)
(***************************************************************************)
C14_ClassificationNeverAltersDispatch ==
    LastIsRequest
        => LET bare == LoopBody(JsonLine(Bare(LastRequest)), Unbound, last.pre,
                                instructions_json)
           IN  /\ last.out = bare.sent
               /\ Executor = bare.ex

(***************************************************************************)
(* C15.  Classification is total: for every decoded message, whatever the   *)
(* shape of its payload, the interception completes without raising and     *)
(* reports a classification.                                                *)
(* Stated as the claim states it; the interception assumes that params is   *)
(* a mapping, that content is a string and that messages is a list of       *)
(* strings or mappings of strings.                                          *)
(***************************************************************************)
C15_ClassificationIsTotal ==
    LastIsRequest
        => /\ ~InterceptionRaises(LastRequest)
           /\ last.log # <<>>
           /\ Reported.level \in {"SUMMARY", "DEBUG"}

\* the content of instructions.json is a mapping whose steps are a list of
\* mappings with a step and a description
WellFormedSource(file) ==
    /\ file.t = "json"
    /\ file.v.t = "dict"
    /\ "steps" \in DOMAIN file.v.d
    /\ file.v.d.steps.t = "list"
    /\ \A i \in DOMAIN file.v.d.steps.items :
          /\ file.v.d.steps.items[i].t = "dict"
          /\ {"step", "description"} \subseteq DOMAIN file.v.d.steps.items[i].d

(***************************************************************************)
(* C16.  A step-source error is reported as a textual error result, not as  *)
(* a protocol error: when instructions.json is absent or has malformed      *)
(* content, run_full_execution and get_current_state answer with a          *)
(* response that carries result and the id of the request, and the loop     *)
(* continues.                                                               *)
(* Stated as the claim states it; run_full_execution parses the file        *)
(* itself, and what json.loads or .get raises reaches the except block.     *)
(***************************************************************************)
C16_SourceErrorIsATextResult ==
    (/\ \/ LastIsPlainCall(s_run_full_execution)
        \/ LastIsPlainCall(s_get_current_state)
     /\ CarriesId(LastRequest)
     /\ ~WellFormedSource(instructions_json))
        => /\ AnsweredWithResult
           /\ last.out[1].id = GetOrNone(LastRequest, "id")
           /\ pc = "reading"

\* the line handled last is a request of an operation that only reads:
\* initialize, tools/list, get_current_state or get_history
LastIsReadOnly ==
    /\ LastIsRequest
    /\ \/ GetOrNone(LastRequest, "method") = JStr(s_initialize)
       \/ GetOrNone(LastRequest, "method") = JStr(s_tools_list)
       \/ CallsTool(LastRequest, s_get_current_state)
       \/ CallsTool(LastRequest, s_get_history)

(***************************************************************************)
(* C17.  The read-only operations initialize, tools/list,                   *)
(* get_current_state and get_history leave current_step, history and        *)
(* goal_achieved unchanged, from any state and for any request payload.     *)
(***************************************************************************)
C17_ReadsLeaveTheState ==
    LastIsReadOnly
        => /\ current_step = last.pre.current_step
           /\ history = last.pre.history
           /\ goal_achieved = last.pre.goal_achieved

\* C17 witness: get_history with a payload for the interception ran on an
\* executor that had advanced twice and achieved its goal
C17_Witness ==
    /\ LastIsReadOnly
    /\ CallsTool(LastRequest, s_get_history)
    /\ "content" \in DOMAIN LastRequest.d.params.d
    /\ AnsweredWithResult
    /\ last.pre.current_step = 2
    /\ last.pre.goal_achieved
    /\ current_step = 2

\* the line handled last is a run_full_execution request, and the tool ran
LastIsRun ==
    /\ LastIsRequest
    /\ CallsTool(LastRequest, s_run_full_execution)
    /\ AnsweredWithResult

(***************************************************************************)
(* C18.  current_step starts at 0 and never decreases from one state to     *)
(* the next, except in a reset step, which sets it to 0: reset_execution    *)
(* and clear_cache leave 0, and run_full_execution, which resets at its     *)
(* start, leaves 0 or the one increment it makes after the reset.  Every    *)
(* other change is an increment by exactly one.                             *)
(***************************************************************************)
C18_StepIsMonotoneBetweenResets ==
    /\ last.op = "start" => current_step = 0
    /\ current_step < last.pre.current_step => LastIsReset
    /\ (last.op = "clear_cache" \/ LastIsResetTool) => current_step = 0
    /\ LastIsRun => current_step \in {0, 1}
    /\ ~LastIsReset => current_step \in {last.pre.current_step, last.pre.current_step + 1}

\* C18 witness: the cursor had advanced to the bound and a run has reset it
\* and advanced it once
C18_Witness ==
    /\ LastIsRun
    /\ last.pre.current_step = MaxStep
    /\ current_step = 1

(***************************************************************************)
(* C19.  With the auto-confirm policy enabled and the response text "y\n",  *)
(* handle_interruption on a Triggered handler returns "y\n"; reset() puts   *)
(* the handler back in Idle from any state, with no idle time counted, and  *)
(* the run that begins next finds it Armed, not Triggered.                  *)
(***************************************************************************)
C19_AutoConfirmThenReset ==
    /\ (/\ handler_last.op = "handle_interruption"
        /\ handler_last.pre.state = "Triggered"
        /\ handler_last.pre.policy.enabled
        /\ handler_last.pre.policy.response_text = s_y_newline)
           => /\ handler_last.ret = Answer(s_y_newline)
              /\ interruption_handler.state = "AutoAnswered"
    /\ handler_last.op = "reset"
           => /\ interruption_handler.state = "Idle"
              /\ interruption_handler.idle = 0
              /\ interruption_handler.policy = handler_last.pre.policy
    /\ handler_last.op = "begin_run" => interruption_handler.state = "Armed"

\* C19 witness: reset() on a handler that was Triggered in its run and whose
\* handle_interruption answered "y\n"
C19_Witness ==
    /\ handler_last.op = "reset"
    /\ handler_last.pre.state = "AutoAnswered"
    /\ handler_last.pre.idle = 0
    /\ handler_last.pre.policy.enabled
    /\ handler_last.pre.policy.response_text = s_y_newline
    /\ interruption_handler.state = "Idle"

(***************************************************************************)
(* C20.  Livelock guard: when the idle_timeout elapses while the            *)
(* interruption is Triggered and unresolved, the handler auto-answers with  *)
(* the response text of its policy, also when the policy is disabled; and   *)
(* an unresolved interruption is always eventually resolved.                *)
(***************************************************************************)
C20_LivelockGuard ==
    /\ [](handler_last.op = "idle_timeout"
            => /\ interruption_handler.state = "AutoAnswered"
               /\ handler_last.ret = Answer(interruption_handler.policy.response_text))
    /\ (Unresolved(interruption_handler) ~> ~Unresolved(interruption_handler))

\* C20 witness: with the policy disabled, the prompt was surfaced, the
\* idle_timeout elapsed and the handler answered
C20_Witness ==
    /\ handler_last.op = "idle_timeout"
    /\ ~handler_last.pre.policy.enabled
    /\ handler_last.pre.state = "Surfaced"
    /\ handler_last.pre.idle = handler_last.pre.policy.idle_timeout
    /\ interruption_handler.state = "AutoAnswered"

\* the text holds the letters d, o, n, e in a row, each in either case
HasDoneInAnyCase(text) ==
    \E i \in 1..(Len(text) - 3) :
        /\ text[i] \in {"d", "D"}
        /\ text[i + 1] \in {"o", "O"}
        /\ text[i + 2] \in {"n", "N"}
        /\ text[i + 3] \in {"e", "E"}

(***************************************************************************)
(* C21.  One advance add_to_history(user_input, llm_response) appends       *)
(* exactly two records to the end of history, the user record first and     *)
(* the ai record second, leaves the earlier records unchanged, increments   *)
(* current_step by exactly one, and leaves goal_achieved true if and only   *)
(* if it was true already or the response text contains "DONE" in any       *)
(* case.                                                                    *)
(***************************************************************************)
C21_AdvanceAppendsOnePair ==
    last.op = "add_to_history"
        => LET before == last.pre
               n == Len(before.history)
               user_input == last.arg[1]
               llm_response == last.arg[2]
           IN  /\ Len(history) = n + 2
               /\ SubSeq(history, 1, n) = before.history
               /\ history[n + 1] = s_USER \o user_input
               /\ history[n + 2] = s_AI \o llm_response
               /\ current_step = before.current_step + 1
               /\ goal_achieved <=> (before.goal_achieved \/ HasDoneInAnyCase(llm_response))

\* C21 witness: an advance on a history that held a pair already, with a
\* response that spells done in lowercase, achieved the goal
C21_Witness ==
    /\ last.op = "add_to_history"
    /\ Len(last.pre.history) = 2
    /\ ~last.pre.goal_achieved
    /\ last.arg[2] = s_done_lower
    /\ goal_achieved
    /\ Len(history) = 4

\* the number of places of the text at which the pattern starts
Occurrences(text, pat) ==
    Cardinality({i \in 1..(Len(text) - Len(pat) + 1) :
                    SubSeq(text, i, i + Len(pat) - 1) = pat})

(***************************************************************************)
(* C22.  run_full_execution is bounded by the step ceiling: for a step      *)
(* source of any length, one run_full_execution request reports at most 10  *)
(* steps in its response, advances the cursor at most 10 times, and always  *)
(* completes with its response.                                             *)
(* Stated as the claim states it; the tool has no ceiling and lists every   *)
(* step of the source in the plan it sends.                                 *)
(***************************************************************************)
C22_RunIsBoundedByTheCeiling ==
    (/\ LastIsPlainCall(s_run_full_execution)
     /\ CarriesId(LastRequest)
     /\ WellFormedSource(instructions_json))
        => /\ AnsweredWithResult
           /\ Occurrences(last.out[1].result.content[1].text, s_plan_STEP) <= 10
           /\ current_step <= 10

(***************************************************************************)
(* C23.  run_full_execution is an idempotent re-entry: for a given step     *)
(* source, its response and the executor it leaves are those it gives on    *)
(* a new executor, whatever the executor was before the request; and the    *)
(* same request handled again right after leaves the same executor and      *)
(* gets the same response.                                                  *)
(***************************************************************************)
C23_RunIsIdempotentReentry ==
    LastIsPlainCall(s_run_full_execution)
        => LET fresh == LoopBody(last.arg, Unbound, NewExecutor, instructions_json)
               again == LoopBody(last.arg, msg, Executor, instructions_json)
           IN  /\ last.out = fresh.sent
               /\ Executor = fresh.ex
               /\ again.sent = last.out
               /\ again.ex = Executor

\* C23 witness: a run on an executor that had advanced to the bound and
\* achieved its goal left one pair in the history and the goal not achieved
C23_Witness ==
    /\ LastIsRun
    /\ last.pre.current_step = MaxStep
    /\ last.pre.goal_achieved
    /\ current_step = 1
    /\ Len(history) = 2
    /\ ~goal_achieved

(***************************************************************************)
(* C24.  The classifier's tiers are exclusive: a generic-interaction        *)
(* detection is recorded in the log only for a message in which no          *)
(* chat-prompt phrase matched, so each message yields at most one recorded  *)
(* pattern match.                                                           *)
(* Stated as the claim states it; the two detection loops run one after     *)
(* the other, the generic one first, and each logs its own match.           *)
(***************************************************************************)
C24_TiersAreExclusive ==
    LastIsRequest
        => LET detections == {i \in DOMAIN last.log :
                                 last.log[i].level \in {"ALERT", "CHAT_PROMPT"}}
           IN  /\ Cardinality(detections) <= 1
               /\ (\E p \in Range(chat_prompt_patterns) : InMsgStr(p, LastRequest))
                      => \A i \in detections : last.log[i].kind # "user_interaction"

(***************************************************************************)
(* C25.  get_current_step_data returns the step at index current_step of    *)
(* the step source when the steps are a list and current_step is less than  *)
(* their number, and none otherwise (cursor past the end, step source       *)
(* absent or malformed); it never raises, and neither it nor                *)
(* execute_current_step changes current_step, history or goal_achieved.     *)
(* Stated as the claim states it; `steps` that is a string has a length     *)
(* and an index, and the method returns a character of it.                  *)
(***************************************************************************)
C25_StepDataAtCursorOrNone ==
    /\ last.op = "get_current_step_data"
          => LET file == instructions_json
                 listed == /\ file.t = "json"
                           /\ file.v.t = "dict"
                           /\ "steps" \in DOMAIN file.v.d
                           /\ file.v.d.steps.t = "list"
             IN  /\ last.ret =
                       Returned(IF listed /\ current_step < Len(file.v.d.steps.items)
                                THEN file.v.d.steps.items[current_step + 1]
                                ELSE JNull)
                 /\ Executor = last.pre
    /\ last.op = "execute_current_step" => Executor = last.pre

(***************************************************************************)
(* C26.  The diagnostic log is append-only: it is emptied only while a      *)
(* clear_cache request (or a direct clear_cache call) is handled; no other  *)
(* request removes an entry.                                                *)
(* Stated as the claim states it; run_full_execution calls                  *)
(* executor.clear_cache() first, and clear_cache() empties the log file.    *)
(***************************************************************************)
C26_LogIsAppendOnly ==
    last.truncated
        => \/ last.op = "clear_cache"
           \/ /\ LastIsRequest
              /\ CallsTool(LastRequest, s_clear_cache)

(***************************************************************************)
(* C27.  When the input stream ends, the protocol loop terminates, and no   *)
(* response is owed: the end of input is met only at the head of the loop,  *)
(* between two lines, the step that meets it writes nothing and changes     *)
(* nothing of the executor, and no step is taken after it.                  *)
(***************************************************************************)
C27_EndOfInputEndsTheLoop ==
    [][/\ pc # "eof"
       /\ pc' = "eof" => /\ pc = "reading"
                         /\ UNCHANGED <<current_step, history, goal_achieved, msg, last>>]_vars

\* C27 witness: stdin ended after a request that was answered with a result
C27_Witness ==
    /\ pc = "eof"
    /\ LastIsRequest
    /\ AnsweredWithResult
    /\ CarriesId(LastRequest)

(***************************************************************************)
(* C28.  In every state reachable through protocol requests to the          *)
(* instruction-executor server, goal_achieved is false: the only advances   *)
(* a request makes are the records "Monitoring started" and "Full           *)
(* execution started", whose response texts do not contain DONE.            *)
(***************************************************************************)
C28_GoalNeverAchievedByRequests ==
    /\ goal_achieved = FALSE
    /\ last.pre.goal_achieved = FALSE

\* C28 witness: a run_full_execution request has advanced the executor
C28_Witness ==
    /\ LastIsRun
    /\ current_step = 1
    /\ history[2] = s_AI \o s_Executing \o IntToStr(2) \o s_steps_suffix
    /\ goal_achieved = FALSE

(***************************************************************************)
(* C29.  After every handled protocol request, current_step is 0 or 1 and   *)
(* history holds 0 or 2 entries, whatever the number of steps in the step   *)
(* source and whatever the sequence of requests.                            *)
(***************************************************************************)
C29_AtMostOneAdvanceByRequests ==
    /\ current_step \in {0, 1}
    /\ Len(history) \in {0, 2}
    /\ Len(history) = 2 * current_step

\* C29 witness: a second run in a row, on a step source of eleven steps,
\* has left one advance
C29_Witness ==
    /\ LastIsRun
    /\ instructions_json = LongSource
    /\ last.pre.current_step = 1
    /\ current_step = 1
    /\ Len(history) = 2

(***************************************************************************)
(* C30: the relay forwards only to the current build.                      *)
(***************************************************************************)

\* the client sockets that received data since the last text arrived
ForwardedTo == {c \in Clients : sockets[c].data # bot_last.pre_sockets[c].data}

\* the last text is something other than "help" in any case
LastTextIsNotHelp == bot_last.branch # "start" /\ Lower(Strip(bot_last.text)) # s_help

\* C30: a Telegram text other than "help" reaches a build script's socket only
\* if a build was current when the relay read current_build_id (in
\* handle_telegram_message and in the check of forward_to_build), and then
\* exactly the socket of the session stored under the value current_build_id
\* has at the lookup, carrying the stripped text; when no build is current as
\* the text arrives, nothing is sent on any socket and the sender is told that
\* no build session is active.
C30_RelayForwardsOnlyToTheCurrentBuild ==
    /\ ForwardedTo # {} =>
          /\ LastTextIsNotHelp
          /\ bot_last.dispatch_build # None
          /\ bot_last.check_build # None
          /\ bot_last.lookup_build \in DOMAIN bot_last.lookup_sessions
          /\ ForwardedTo = {bot_last.lookup_sessions[bot_last.lookup_build].socket}
          /\ \A c \in ForwardedTo :
                sockets[c].data = Append(bot_last.pre_sockets[c].data,
                                         user_response(Strip(bot_last.text)))
    /\ (LastTextIsNotHelp /\ bot_last.dispatch_build = None) =>
          /\ ForwardedTo = {}
          /\ bot_thread.pc = "idle"
          /\ bot_last.reply = reply_no_active

\* one text was forwarded to the build script of the current build, and a
\* later one, arriving when no build was current, was answered instead
C30_Witness ==
    /\ bot_thread.handled = 2
    /\ \E c \in Clients : Len(sockets[c].data) = 1
    /\ LastTextIsNotHelp
    /\ bot_last.dispatch_build = None
    /\ bot_last.reply = reply_no_active

(***************************************************************************)
(* C31: build_complete removes the sender's own build.                     *)
(***************************************************************************)

\* the build the client c started last; None if it started none
OwnBuild(c) ==
    LET a == client_thread[c].announced IN
    IF a = <<>> THEN None ELSE a[Len(a)]

\* the thread of c has just passed the deletion of a build_complete
HasJustCompleted(c) == client_thread[c].pc = "build_complete_clear"

\* C31: when a client that started a build sends build_complete, the session
\* deleted from build_sessions, if any, is the one of the build this client
\* started, and after the deletion no session is left under that build's id.
C31_CompleteRemovesOwnBuild ==
    \A c \in Clients :
        (HasJustCompleted(c) /\ OwnBuild(c) # None) =>
            /\ client_thread[c].removed \in {OwnBuild(c), NothingRemoved}
            /\ (client_thread[c].removed = NothingRemoved
                  => OwnBuild(c) \notin DOMAIN build_sessions)

(***************************************************************************)
(* C32: a session holds the socket of the client that announced its build. *)
(***************************************************************************)

\* the clients that announced the build id k in a build_start
Announcers(k) ==
    {c \in Clients : \E i \in 1..Len(client_thread[c].announced) :
                        client_thread[c].announced[i] = k}

\* no client thread stands between two statements of a message's handling
NoClientMidMessage ==
    \A c \in Clients : client_thread[c].pc \in {"unconnected", "recv", "closed"}

\* C32: however the client threads' handling of build_start and build_complete
\* messages was interleaved, once every message received is handled, the
\* session stored in build_sessions under a build id holds the socket of a
\* client that announced that build id in a build_start.
C32_SessionHoldsAnnouncersSocket ==
    NoClientMidMessage =>
        \A k \in DOMAIN build_sessions : build_sessions[k].socket \in Announcers(k)

(***************************************************************************)
(* C33: a current build has a session.                                     *)
(***************************************************************************)

LookupFailed == bot_last.branch = "KeyError"

\* C34: however forward_to_build is interleaved with the client threads'
\* handling of build_start and build_complete, a text it sends goes to the
\* socket of a session that is registered at the moment of the lookup, and its
\* lookup never raises KeyError after the membership check has passed.
C34_ForwardNeverFailsOnLookup ==
    /\ ~LookupFailed
    /\ ForwardedTo # {} =>
          /\ bot_last.lookup_build \in DOMAIN bot_last.lookup_sessions
          /\ ForwardedTo = {bot_last.lookup_sessions[bot_last.lookup_build].socket}

====
